---- MODULE Spec2Model ----
(***************************************************************************)
(* winstar0070/hwp-mcp: the batch processor's transactions and batch       *)
(* execution (src/src/tools/hwp_batch_processor.py) over the controller's  *)
(* open_document / save_document (src/src/tools/hwp_controller.py), and    *)
(* the minimal command-dispatch loop (src/hwp-mcp/hwp_mcp_stdio_server.py).*)
(***************************************************************************)
EXTENDS Integers, Sequences, FiniteSets, TLC

\* ------------------------------------------------------------------ bounds
MaxDepth == 3   \* `with processor.transaction(...)` scopes open at once
MaxFiles == 3   \* names tempfile.mktemp hands out in one behaviour
MaxDoc == 2     \* insertions a document holds
MaxOps == 2     \* length of an operation list given to execute_batch
MaxLines == 3   \* input lines the dispatch loop is fed before end-of-input
MaxEofReads == 2  \* reads at end-of-input the model follows
MaxRows == 3    \* rows of the data given to insert_large_table_data / split
MaxCols == 2    \* cells of one data row
MaxChunk == 3   \* explicit chunk_size arguments
MaxWorkers == 4 \* num_workers arguments
MaxTasks == 2   \* length of a task list given to process_multiple_documents
MaxResets == 1  \* record objects ConfigManager.reset creates in one behaviour
MaxCoord == 2   \* explicit max_rows / max_cols arguments of the validators
MaxConnects == 3  \* automation handles Dispatch hands out in one behaviour
MaxText == 4    \* characters of a text given to insert_text
MaxFills == 1   \* fill_table_with_data calls in one behaviour
MaxFillRows == 2  \* rows of the data given to fill_table_with_data
MaxControllers == 2  \* HwpController objects the tool server constructs in one behaviour

\* ------------------------------------------------------------------ state
VARIABLES
  transaction_stack,     \* HwpBatchProcessor._transaction_stack: Seq of [savepoint: file]
  in_transaction,        \* HwpBatchProcessor._in_transaction
  scopes,                \* open transaction() generators, innermost last:
                         \*   [save_point, temp_file, entry_stack]
  disk,                  \* the temporary files that exist (os.path.exists)
  snapshot,              \* file -> the document content saved in it
  document,              \* the live document: the number of insertions it holds
  current_document_path, \* HwpController.current_document_path (0 = None)
  next_temp,             \* the next name tempfile.mktemp returns
  open_calls,            \* the files open_document has been called with
  last_exit,             \* what the most recent step returned or raised to its caller
  plain_opened,          \* some scope was opened with save_point=False so far
  com_may_fail,          \* the automation calls (SaveAs, Open) of this run may fail
  is_hwp_running_attr,   \* the processor object has a truthy is_hwp_running attribute
  processor_hwp,         \* HwpBatchProcessor.hwp is a live handle (truthy)
  batch,                 \* the execute_batch call in progress or last finished
  stdin,                 \* dispatch loop: the lines not yet read
  stdout,                \* dispatch loop: the responses written, as [line, status]
  loop,                  \* dispatch loop: [pc, text, reads, eof_reads, exit_code,
                         \*   interrupted_at]
  PANDOC_AVAILABLE,      \* Word server: pypandoc could be imported
  current_document,      \* Word server: the held document object (0 = None), as the
                         \*   number of documents constructed so far
  document_path,         \* Word server: the module's document_path ("None" = None)
  files,                 \* Word server: the paths that exist in the file system
  word_call,             \* Word server: the tool call that returned last
  last_known_path,       \* Word server: the path of the most recent successful
                         \*   open_document / save_document(path) since the last
                         \*   create_new_document ("None" when there is none)
  large,                 \* the insert_large_table_data call in progress or finished
  multi,                 \* the process_multiple_documents call in progress or finished
  split,                 \* the split_table_data_for_parallel call: arguments, outcome
  environ,               \* configuration: os.environ has HWP_MCP_CONFIG set
  config_files,          \* configuration: candidate path -> what the file there holds
  manager_instance,      \* ConfigManager._instance: 0 = None, else the instance
  manager_config,        \* the instance's _config: 0 = None, else a record object
  module_config,         \* config.py's module-level `config`: the object bound at import
  records,               \* record object -> its attribute values
  config_call,           \* configuration: the call that returned last
  server,                \* the HWP tool server: its two module-level singletons,
                         \*   the controller in the slot and the tool call that
                         \*   returned last
  table_tool,            \* hwp_create_table_with_data: the arguments, the steps
                         \*   performed and the text the call returned
  validation,            \* validate_table_coordinates: the guide module's import
                         \*   state and the call that returned last
  conn,                  \* HwpController: hwp, is_hwp_running, the handles made so
                         \*   far and the call that returned last
  table,                 \* fill_table_with_data: the table, the caret, the character
                         \*   shape in effect and the call that returned last
  inserted,              \* HwpController.insert_text: the arguments, the automation
                         \*   calls issued and the result of the call that returned last
  fileio                 \* HwpConfig.save / HwpConfig.load: the record, the file
                         \*   written and the outcome of the call that returned last

txnVars == <<transaction_stack, in_transaction, scopes, disk, snapshot, document,
             current_document_path, next_temp, open_calls, last_exit,
             plain_opened, com_may_fail>>
batchVars == <<is_hwp_running_attr, processor_hwp, batch>>
loopVars == <<stdin, stdout, loop>>
wordVars == <<PANDOC_AVAILABLE, current_document, document_path, files, word_call, last_known_path>>
configVars == <<environ, config_files, manager_instance, manager_config,
                module_config, records, config_call>>
\* The state of the other components, which a step of one component leaves alone.
\* The controller, the validators and the HWP tool server.
toolVars == <<validation, fileio, conn, table, inserted, server, table_tool>>
otherVars == <<wordVars, large, multi, split, configVars, toolVars>>
vars == <<txnVars, batchVars, loopVars, otherVars>>

Files == 1..MaxFiles

\* No step has just returned: the value of last_exit after any step that is not
\* the exit of a transaction scope.
NoExit == [kind |-> "none", save_point |-> FALSE, temp_file |-> 0,
           entry_stack |-> <<>>, entry_path |-> 0, raised |-> "none"]

\* The outcomes an automation call can have in this run (TRUE: it succeeds).
ComOutcomes == IF com_may_fail THEN BOOLEAN ELSE {TRUE}

Front(s) == SubSeq(s, 1, Len(s) - 1)
Top(s) == s[Len(s)]

\* -------------------------------------------------- controller primitives
\* HwpController.save_document(file_path) with an explicit path: SaveAs writes the
\* file and records the path, or the call raises (HwpNotRunningError when the
\* connection is down, HwpDocumentSaveError when SaveAs reports failure).
\* Result: [ok, disk, snapshot, current_document_path].
save_document(f, saveOk) ==
  IF saveOk
    THEN [ok |-> TRUE, disk |-> disk \cup {f},
          snapshot |-> [snapshot EXCEPT ![f] = document],
          current_document_path |-> f]
    ELSE [ok |-> FALSE, disk |-> disk, snapshot |-> snapshot,
          current_document_path |-> current_document_path]

\* HwpController.open_document(file_path) on an existing file: Open loads the file
\* and records the path, or the call raises (HwpNotRunningError, or
\* HwpDocumentAccessError when Open reports failure).
\* Result: [ok, document, current_document_path].
open_document(f, openOk) ==
  IF openOk
    THEN [ok |-> TRUE, document |-> snapshot[f], current_document_path |-> f]
    ELSE [ok |-> FALSE, document |-> document,
          current_document_path |-> current_document_path]

\* ------------------------------------------------ HwpBatchProcessor helpers
\* _rollback_to_savepoint(savepoint_file): only when the file exists, reopen the
\* document from it and then delete it; a raising open_document leaves the file.
\* Result: [raised, disk, snapshot, document, current_document_path, open_calls].
RollbackToSavepoint(f, openOk) ==
  IF f \in disk
    THEN LET o == open_document(f, openOk) IN
         IF o.ok
           THEN [raised |-> "none", disk |-> disk \ {f},
                 snapshot |-> [snapshot EXCEPT ![f] = 0],
                 document |-> o.document,
                 current_document_path |-> o.current_document_path,
                 open_calls |-> open_calls \cup {f}]
           ELSE [raised |-> "HwpDocumentError", disk |-> disk, snapshot |-> snapshot,
                 document |-> document,
                 current_document_path |-> current_document_path,
                 open_calls |-> open_calls \cup {f}]
    ELSE [raised |-> "none", disk |-> disk, snapshot |-> snapshot,
          document |-> document, current_document_path |-> current_document_path,
          open_calls |-> open_calls]

\* The `except Exception` clause of transaction(): with save_point and a non-empty
\* stack, roll back to the savepoint on TOP of the stack and pop it; then raise
\* HwpBatchError. An exception of the rollback itself escapes before the pop.
\* Result: RollbackToSavepoint's fields and [stack].
ExceptClause(save_point, openOk) ==
  IF save_point /\ transaction_stack # <<>>
    THEN LET r == RollbackToSavepoint(Top(transaction_stack).savepoint, openOk) IN
         IF r.raised = "none"
           THEN [r EXCEPT !.raised = "HwpBatchError"]
                  @@ [stack |-> Front(transaction_stack)]
           ELSE r @@ [stack |-> transaction_stack]
    ELSE [raised |-> "HwpBatchError", disk |-> disk, snapshot |-> snapshot,
          document |-> document, current_document_path |-> current_document_path,
          open_calls |-> open_calls, stack |-> transaction_stack]

\* The commit after the yield: os.remove(temp_file) when save_point, then pop the
\* stack whenever it is not empty (the pop is not under the save_point test). A
\* missing temp_file makes os.remove raise inside the try, which runs the except
\* clause. Result: ExceptClause's fields.
CommitClause(save_point, temp_file, openOk) ==
  IF save_point /\ temp_file # 0 /\ temp_file \notin disk
    THEN ExceptClause(save_point, openOk)
    ELSE [raised |-> "none",
          disk |-> IF save_point /\ temp_file # 0 THEN disk \ {temp_file} ELSE disk,
          snapshot |-> IF save_point /\ temp_file # 0
                         THEN [snapshot EXCEPT ![temp_file] = 0] ELSE snapshot,
          document |-> document, current_document_path |-> current_document_path,
          open_calls |-> open_calls,
          stack |-> IF transaction_stack # <<>> THEN Front(transaction_stack)
                                              ELSE transaction_stack]

\* Install the outcome of an except/commit clause; the finally clause clears the
\* in-transaction flag on every exit.
Leave(r) ==
  /\ transaction_stack' = r.stack
  /\ disk' = r.disk
  /\ snapshot' = r.snapshot
  /\ document' = r.document
  /\ current_document_path' = r.current_document_path
  /\ open_calls' = r.open_calls
  /\ in_transaction' = FALSE

\* ------------------------------------------------------ transaction scopes
\* Entry of `with processor.transaction(save_point)` up to the yield. With
\* save_point, _create_savepoint takes a fresh mktemp name and saves the document
\* to it; a raising save runs the except clause before anything was pushed.
TxnEnter(save_point, saveOk, openOk) ==
  IF ~save_point
    THEN /\ in_transaction' = TRUE
         /\ scopes' = Append(scopes, [save_point |-> FALSE, temp_file |-> 0,
                                      entry_stack |-> transaction_stack,
                                      entry_path |-> current_document_path])
         /\ last_exit' = NoExit
         /\ UNCHANGED <<transaction_stack, disk, snapshot, document,
                        current_document_path, next_temp, open_calls>>
    ELSE LET f == next_temp
             s == save_document(f, saveOk) IN
         /\ next_temp' = next_temp + 1
         /\ IF s.ok
              THEN /\ in_transaction' = TRUE
                   /\ disk' = s.disk
                   /\ snapshot' = s.snapshot
                   /\ current_document_path' = s.current_document_path
                   /\ transaction_stack' = Append(transaction_stack, [savepoint |-> f])
                   /\ scopes' = Append(scopes, [save_point |-> TRUE, temp_file |-> f,
                                                entry_stack |-> transaction_stack,
                                      entry_path |-> current_document_path])
                   /\ last_exit' = NoExit
                   /\ UNCHANGED <<document, open_calls>>
              ELSE LET r == ExceptClause(TRUE, openOk) IN
                   /\ Leave(r)
                   /\ last_exit' = [kind |-> "enter_failed", save_point |-> TRUE,
                                    temp_file |-> 0,
                                    entry_stack |-> transaction_stack,
                                    entry_path |-> current_document_path,
                                    raised |-> r.raised]
                   /\ UNCHANGED scopes

\* The body of the innermost scope completes without fault: the commit clause.
TxnCommit(openOk) ==
  LET sc == Top(scopes)
      r == CommitClause(sc.save_point, sc.temp_file, openOk) IN
  /\ Leave(r)
  /\ scopes' = Front(scopes)
  /\ last_exit' = [kind |-> "commit", save_point |-> sc.save_point,
                   temp_file |-> sc.temp_file, entry_stack |-> sc.entry_stack,
                   entry_path |-> sc.entry_path, raised |-> r.raised]
  /\ UNCHANGED next_temp

\* The body of the innermost scope raises an Exception: the except clause.
TxnFault(openOk) ==
  LET sc == Top(scopes)
      r == ExceptClause(sc.save_point, openOk) IN
  /\ Leave(r)
  /\ scopes' = Front(scopes)
  /\ last_exit' = [kind |-> "fault", save_point |-> sc.save_point,
                   temp_file |-> sc.temp_file, entry_stack |-> sc.entry_stack,
                   entry_path |-> sc.entry_path, raised |-> r.raised]
  /\ UNCHANGED next_temp

\* No execute_batch call is in progress and no result is held.
NoBatch == [pc |-> "idle", operations |-> <<>>, use_transaction |-> FALSE,
            stop_on_error |-> FALSE, idx |-> 0, stopped |-> FALSE,
            executed |-> 0, failed |-> 0, results |-> <<>>, errors |-> <<>>,
            success |-> TRUE, raised |-> "none", attempted |-> <<>>,
            entered |-> FALSE,
            start_document |-> 0,
            tool |-> "none", connected |-> FALSE, parsed |-> FALSE]

BatchIdle == batch.pc # "loop"

\* A caller opens a transaction scope (possibly inside the body of another).
Enter ==
  /\ BatchIdle
  /\ Len(scopes) < MaxDepth
  /\ \E save_point \in BOOLEAN, saveOk \in ComOutcomes, openOk \in ComOutcomes :
       /\ save_point => next_temp <= MaxFiles
       /\ TxnEnter(save_point, saveOk, openOk)
       /\ plain_opened' = (plain_opened \/ ~save_point)
  /\ UNCHANGED <<com_may_fail, batchVars, loopVars, otherVars>>

\* The body of the innermost open scope ends normally.
Commit ==
  /\ BatchIdle
  /\ scopes # <<>>
  /\ \E openOk \in ComOutcomes : TxnCommit(openOk)
  /\ UNCHANGED <<plain_opened, com_may_fail, batchVars, loopVars, otherVars>>

\* The body of the innermost open scope raises (its own fault, or a fault of a
\* nested scope that it lets through).
Fault ==
  /\ BatchIdle
  /\ scopes # <<>>
  /\ \E openOk \in ComOutcomes : TxnFault(openOk)
  /\ UNCHANGED <<plain_opened, com_may_fail, batchVars, loopVars, otherVars>>

\* The caller edits the document (a controller insertion) between other steps; the
\* result of an earlier execute_batch call is behind it.
Edit ==
  /\ BatchIdle
  /\ document < MaxDoc
  /\ document' = document + 1
  /\ last_exit' = NoExit
  /\ UNCHANGED <<transaction_stack, in_transaction, scopes, disk, snapshot,
                 current_document_path, next_temp, open_calls>>
  /\ batch' = NoBatch
  /\ UNCHANGED <<plain_opened, com_may_fail, is_hwp_running_attr, processor_hwp,
                 loopVars, otherVars>>

\* ---------------------------------------------------------- execute_batch
\* The operation descriptors the model feeds to execute_batch:
\*   "insert_text"    {"action": "insert_text", "params": {...}}, the call returns
\*   "insert_table"   {"action": "insert_table", ...}, the controller call raises
\*                    (a raising controller method, or parameters it rejects)
\*   "unknown_action" {"action": "unknown_action", "params": {}}
\*   "no_action"      {"params": {}}: a descriptor without an "action" key
Descriptors == {"insert_text", "insert_table", "unknown_action", "no_action"}

\* The keys of action_map in _execute_operation that the descriptors above use.
action_map == {"insert_text", "insert_table"}

\* operation.get("action"): the action name, or None when the key is absent.
OperationGetAction(op) == IF op = "no_action" THEN "None" ELSE op

\* operation["action"] raises KeyError when the key is absent.
HasActionKey(op) == op # "no_action"

\* _execute_operation(operation): "returned", or the exception it raises.
ExecuteOperation(op) ==
  LET action == OperationGetAction(op) IN
  IF action \notin action_map THEN "HwpOperationError"
  ELSE IF action = "insert_table" THEN "Exception"
  ELSE "returned"

\* The index of the first operation of the list that faults, or the length of the
\* list when none does.
RECURSIVE FirstFailure(_, _)
FirstFailure(ops, i) ==
  IF i >= Len(ops) THEN Len(ops)
  ELSE IF ExecuteOperation(ops[i + 1]) # "returned" THEN i
  ELSE FirstFailure(ops, i + 1)

\* require_hwp_connection on a HwpBatchProcessor method: the object itself must
\* carry a truthy is_hwp_running and a truthy hwp.
RequireHwpConnection == is_hwp_running_attr /\ processor_hwp

\* Whether the loop of execute_batch goes on after the operation at idx failed.
ContinuesAfterFailure(stop_on_error) == ~stop_on_error

\* results["success"] as execute_batch recomputes it before returning.
OverallSuccess(failed) == failed = 0

OperationLists == UNION {[1..n -> Descriptors] : n \in 0..MaxOps}

\* The caller sets processor.is_hwp_running = True by hand, as the fixtures of
\* test_hwp_batch_processor.py do; HwpBatchProcessor.__init__ never sets it.
SetIsHwpRunning ==
  /\ BatchIdle
  /\ ~is_hwp_running_attr
  /\ is_hwp_running_attr' = TRUE
  /\ last_exit' = NoExit
  /\ UNCHANGED <<transaction_stack, in_transaction, scopes, disk, snapshot, document,
                 current_document_path, next_temp, open_calls>>
  /\ batch' = NoBatch
  /\ UNCHANGED <<plain_opened, com_may_fail, processor_hwp, loopVars, otherVars>>

\* execute_batch(operations, use_transaction, stop_on_error) up to the first
\* operation: the connection guard, the results record, and the entry of the
\* transaction() (or _dummy_context()) the loop runs in.
BatchStart ==
  /\ BatchIdle
  /\ \E ops \in OperationLists, ut \in BOOLEAN, soe \in BOOLEAN,
        saveOk \in ComOutcomes, openOk \in ComOutcomes :
       LET b == [NoBatch EXCEPT !.operations = ops, !.use_transaction = ut,
                                !.stop_on_error = soe,
                                !.start_document = document] IN
       /\ document + Len(ops) <= MaxDoc
       /\ IF ~RequireHwpConnection
            THEN /\ batch' = [b EXCEPT !.pc = "raised",
                                       !.raised = "HwpNotRunningError"]
                 /\ last_exit' = NoExit
                 /\ UNCHANGED <<transaction_stack, in_transaction, scopes, disk,
                                snapshot, document, current_document_path,
                                next_temp, open_calls>>
            ELSE IF ut
              THEN /\ Len(scopes) < MaxDepth
                   /\ next_temp <= MaxFiles
                   /\ TxnEnter(TRUE, saveOk, openOk)
                   /\ batch' = IF saveOk THEN [b EXCEPT !.pc = "loop", !.entered = TRUE]
                               ELSE [b EXCEPT !.pc = "raised",
                                              !.raised = last_exit'.raised]
              ELSE /\ batch' = [b EXCEPT !.pc = "loop", !.entered = TRUE]
                   /\ last_exit' = NoExit
                   /\ UNCHANGED <<transaction_stack, in_transaction, scopes, disk,
                                  snapshot, document, current_document_path,
                                  next_temp, open_calls>>
  /\ UNCHANGED <<plain_opened, com_may_fail, is_hwp_running_attr, processor_hwp,
                 loopVars, otherVars>>

\* One iteration of the loop of execute_batch: the operation at idx is executed;
\* success and failure are recorded; the handler of a failure reads
\* operation['action'], whose KeyError leaves the loop and the with block.
BatchOp ==
  /\ batch.pc = "loop"
  /\ ~batch.stopped
  /\ batch.idx < Len(batch.operations)
  /\ LET op == batch.operations[batch.idx + 1]
         out == ExecuteOperation(op)
         b == [batch EXCEPT !.attempted = Append(@, batch.idx)] IN
     IF out = "returned"
       THEN /\ batch' = [b EXCEPT
                 !.results = Append(@, [index |-> batch.idx, operation |-> op,
                                        success |-> TRUE]),
                 !.executed = @ + 1, !.idx = @ + 1]
            /\ document' = document + 1
            /\ last_exit' = NoExit
            /\ UNCHANGED <<transaction_stack, in_transaction, scopes, disk, snapshot,
                           current_document_path, next_temp, open_calls>>
       ELSE IF HasActionKey(op)
         THEN /\ batch' = [b EXCEPT
                   !.results = Append(@, [index |-> batch.idx, operation |-> op,
                                          success |-> FALSE]),
                   !.failed = @ + 1,
                   !.errors = Append(@, batch.idx),
                   !.success = IF batch.stop_on_error THEN FALSE ELSE @,
                   !.stopped = ~ContinuesAfterFailure(batch.stop_on_error),
                   !.idx = IF ContinuesAfterFailure(batch.stop_on_error)
                             THEN @ + 1 ELSE @]
              /\ last_exit' = NoExit
              /\ UNCHANGED <<transaction_stack, in_transaction, scopes, disk, snapshot,
                             document, current_document_path, next_temp, open_calls>>
         ELSE IF batch.use_transaction
           THEN /\ \E openOk \in ComOutcomes : TxnFault(openOk)
                /\ batch' = [b EXCEPT !.pc = "raised", !.raised = last_exit'.raised]
           ELSE /\ batch' = [b EXCEPT !.pc = "raised", !.raised = "KeyError"]
                /\ last_exit' = NoExit
                /\ UNCHANGED <<transaction_stack, in_transaction, scopes, disk,
                               snapshot, document, current_document_path, next_temp,
                               open_calls>>
  /\ UNCHANGED <<plain_opened, com_may_fail, is_hwp_running_attr, processor_hwp,
                 loopVars, otherVars>>

\* The loop of execute_batch is over (exhausted, or left by break): the with block
\* exits normally, success is recomputed and the results record is returned.
BatchReturn ==
  /\ batch.pc = "loop"
  /\ batch.stopped \/ batch.idx = Len(batch.operations)
  /\ IF batch.use_transaction
       THEN /\ \E openOk \in ComOutcomes : TxnCommit(openOk)
            /\ batch' = IF last_exit'.raised = "none"
                          THEN [batch EXCEPT !.pc = "done",
                                             !.success = OverallSuccess(batch.failed)]
                          ELSE [batch EXCEPT !.pc = "raised",
                                             !.raised = last_exit'.raised]
       ELSE /\ batch' = [batch EXCEPT !.pc = "done",
                                      !.success = OverallSuccess(batch.failed)]
            /\ last_exit' = NoExit
            /\ UNCHANGED <<transaction_stack, in_transaction, scopes, disk, snapshot,
                           document, current_document_path, next_temp, open_calls>>
  /\ UNCHANGED <<plain_opened, com_may_fail, is_hwp_running_attr, processor_hwp,
                 loopVars, otherVars>>

\* ------------------------------------------- minimal command-dispatch loop
\* An input line is [pad, text]: text is what str.strip() leaves of it ("" for a
\* line of nothing but its newline and other whitespace), pad says that the line
\* carries whitespace around that text besides the newline.
\*   "known"    a JSON object whose type is one of the four command types
\*   "unknown"  a JSON object with any other type
\*   "garbage"  text the command parser cannot parse
LineTexts == {"", "known", "unknown", "garbage"}
Lines == [pad : BOOLEAN, text : LineTexts]

\* sys.stdin.readline() at end-of-input returns the empty string, with no newline.
EofLine == [pad |-> FALSE, text |-> ""]

\* str.strip(): surrounding whitespace and the newline go, the text stays.
Strip(line) == line.text

\* The line has no character besides its newline.
IsEmptyLine(line) == ~line.pad /\ line.text = ""

\* A loop without the empty-line test: every line read is handled.
SkipsNothing(text) == FALSE

\* `if not line: continue` on the stripped line.
Skipped(text) == text = ""

\* CommandParser.parse(line): the command of a JSON line, or a raised exception.
Parse(text) == IF text = "garbage" THEN "raises" ELSE text

\* HwpController.execute(command): the handler of a known type returns success,
\* or error when the automation call raised inside the handler; any other type
\* returns the Unknown-command-type error. Result: the response's status.
Execute(command, comOk) ==
  IF command = "known" THEN (IF comOk THEN "success" ELSE "error")
  ELSE "error"

\* The response main() writes for a stripped, non-empty line.
Respond(text, comOk) ==
  IF Parse(text) = "raises" THEN "error" ELSE Execute(Parse(text), comOk)

\* What the loop does after sys.stdin.readline() returned "" at end-of-input:
\* the stripped line is empty, so `continue` returns to the read.
AfterEof == "read"

\* line = sys.stdin.readline().strip(); if not line: continue
Read ==
  /\ loop.pc = "read"
  /\ IF stdin # <<>>
       THEN LET text == Strip(Head(stdin)) IN
            /\ stdin' = Tail(stdin)
            /\ loop' = [loop EXCEPT !.pc = IF Skipped(text) THEN "read" ELSE "handle",
                                    !.text = text,
                                    !.reads = Append(@, Head(stdin))]
       ELSE /\ loop.eof_reads < MaxEofReads
            /\ stdin' = stdin
            /\ loop' = [loop EXCEPT !.pc = IF Skipped(Strip(EofLine)) THEN AfterEof
                                                                     ELSE "handle",
                                    !.text = Strip(EofLine),
                                    !.eof_reads = @ + 1]
  /\ stdout' = stdout
  /\ UNCHANGED <<txnVars, batchVars, otherVars>>

\* parse, execute, write the response and flush; every Exception becomes an error
\* response.
Handle ==
  /\ loop.pc = "handle"
  /\ \E comOk \in BOOLEAN :
       stdout' = Append(stdout, [text |-> loop.text,
                                 status |-> Respond(loop.text, comOk)])
  /\ loop' = [loop EXCEPT !.pc = "read"]
  /\ stdin' = stdin
  /\ UNCHANGED <<txnVars, batchVars, otherVars>>

\* KeyboardInterrupt inside the loop, at the read or while a line is handled:
\* sys.exit(0).
Interrupt ==
  /\ loop.pc \in {"read", "handle"}
  /\ loop' = [loop EXCEPT !.pc = "exited", !.exit_code = 0, !.interrupted_at = loop.pc]
  /\ UNCHANGED <<stdin, stdout, txnVars, batchVars, otherVars>>

\* ------------------------------------------ Word-document automation server
\* The paths a host passes to open_document and save_document.
UserPaths == {"a.docx", "b.docx"}

\* temp_path of export_to_pdf for a document that has no path.
TempPath == "temp_document.docx"

\* output_path of export_to_pdf.
PdfPath == "out.pdf"

\* None, as the value of document_path or of an omitted file_path.
NoPath == "None"

\* No tool call has returned yet.
NoWordCall == [tool |-> "none", file_path |-> NoPath, text |-> "none", wrote |-> {},
               path_before |-> NoPath, known_before |-> NoPath]

\* What a tool call leaves in word_call: text is "ok" for a success text and
\* "Error" for a text beginning "Error: "; wrote is the paths it wrote.
WordCall(tool, file_path, text, wrote) ==
  [tool |-> tool, file_path |-> file_path, text |-> text, wrote |-> wrote,
   path_before |-> document_path, known_before |-> last_known_path]

\* save_current_document(path): doc.save(path) on the held (or a fresh) document;
\* a successful save records the path in document_path, a fault returns False.
\* Result: [ok, files, document_path].
save_current_document(path, saveOk) ==
  IF saveOk
    THEN [ok |-> TRUE, files |-> files \cup {path}, document_path |-> path]
    ELSE [ok |-> FALSE, files |-> files, document_path |-> document_path]

\* create_new_document(title): a fresh document, document_path = None.
WordCreateNewDocument ==
  /\ current_document' = 1
  /\ document_path' = NoPath
  /\ last_known_path' = NoPath
  /\ word_call' = WordCall("create_new_document", NoPath, "ok", {})
  /\ UNCHANGED <<PANDOC_AVAILABLE, files>>
  /\ UNCHANGED <<txnVars, batchVars, loopVars, large, multi, split, configVars, toolVars>>

\* open_document(file_path): not-found text for a missing file; otherwise
\* Document(file_path) loads it and the path is recorded, or it raises (the file
\* is no document) and the fault text is returned with nothing changed.
WordOpenDocument ==
  /\ \E file_path \in UserPaths \cup {TempPath}, loadOk \in BOOLEAN :
       IF file_path \notin files \/ ~loadOk
         THEN /\ word_call' = WordCall("open_document", file_path, "Error", {})
              /\ UNCHANGED <<current_document, document_path, last_known_path>>
         ELSE /\ current_document' = 1
              /\ document_path' = file_path
              /\ last_known_path' = file_path
              /\ word_call' = WordCall("open_document", file_path, "ok", {})
  /\ UNCHANGED <<PANDOC_AVAILABLE, files>>
  /\ UNCHANGED <<txnVars, batchVars, loopVars, large, multi, split, configVars, toolVars>>

\* save_document(file_path=None): with neither a file_path nor a document_path
\* the no-path error; otherwise save_current_document(file_path or document_path).
WordSaveDocument ==
  /\ \E file_path \in UserPaths \cup {NoPath}, saveOk \in BOOLEAN :
       IF file_path = NoPath /\ document_path = NoPath
         THEN /\ word_call' = WordCall("save_document", file_path, "Error", {})
              /\ UNCHANGED <<current_document, document_path, files, last_known_path>>
         ELSE LET path == IF file_path # NoPath THEN file_path ELSE document_path
                  r == save_current_document(path, saveOk) IN
              /\ current_document' = 1
              /\ files' = r.files
              /\ document_path' = r.document_path
              /\ last_known_path' = IF r.ok /\ file_path # NoPath THEN file_path
                                                                ELSE last_known_path
              /\ word_call' = WordCall("save_document", file_path,
                                       IF r.ok THEN "ok" ELSE "Error",
                                       IF r.ok THEN {path} ELSE {})
  /\ UNCHANGED PANDOC_AVAILABLE
  /\ UNCHANGED <<txnVars, batchVars, loopVars, large, multi, split, configVars, toolVars>>

\* insert_text(text, style): a paragraph is appended to the held document, which
\* get_or_create_document creates when there is none.
WordInsertText ==
  /\ current_document' = 1
  /\ word_call' = WordCall("insert_text", NoPath, "ok", {})
  /\ UNCHANGED <<PANDOC_AVAILABLE, document_path, files, last_known_path>>
  /\ UNCHANGED <<txnVars, batchVars, loopVars, large, multi, split, configVars, toolVars>>

\* export_to_pdf(output_path): unavailable without pypandoc. A document without a
\* path is first written to TempPath through save_current_document (whose result
\* is not looked at); pypandoc.convert_file reads temp_path and raises when the
\* file is missing or the conversion fails; afterwards TempPath is removed only
\* if document_path is (still) None and the file exists.
WordExportToPdf ==
  /\ \E saveOk \in BOOLEAN, convertOk \in BOOLEAN :
       IF ~PANDOC_AVAILABLE
         THEN /\ word_call' = WordCall("export_to_pdf", PdfPath, "Error", {})
              /\ UNCHANGED <<current_document, document_path, files>>
         ELSE LET unsaved == document_path = NoPath
                  temp_path == IF unsaved THEN TempPath ELSE document_path
                  r == IF unsaved THEN save_current_document(temp_path, saveOk)
                       ELSE [ok |-> TRUE, files |-> files,
                             document_path |-> document_path]
                  saved == IF unsaved /\ r.ok THEN {temp_path} ELSE {}
                  converted == temp_path \in r.files /\ convertOk
                  removes == r.document_path = NoPath /\ temp_path \in r.files IN
              /\ current_document' = IF unsaved THEN 1 ELSE current_document
              /\ document_path' = r.document_path
              /\ files' = IF converted
                            THEN (IF removes THEN r.files \ {temp_path} ELSE r.files)
                                   \cup {PdfPath}
                            ELSE r.files
              /\ word_call' = WordCall("export_to_pdf", PdfPath,
                                       IF converted THEN "ok" ELSE "Error",
                                       IF converted THEN saved \cup {PdfPath}
                                                    ELSE saved)
  /\ UNCHANGED <<PANDOC_AVAILABLE, last_known_path>>
  /\ UNCHANGED <<txnVars, batchVars, loopVars, large, multi, split, configVars, toolVars>>

\* ------------------------------------------------ insert_large_table_data
\* constants.py: the chunk size used when chunk_size is None.
BATCH_CHUNK_SIZE == 100

\* The data argument, as the sequence of its rows' lengths (rows may be ragged).
DataShapes == UNION {[1..n -> 0..MaxCols] : n \in 0..MaxRows}

\* The chunk sizes a call runs with: an explicit chunk_size >= 1, or the default.
ChunkSizes == (1..MaxChunk) \cup {BATCH_CHUNK_SIZE}

Min(a, b) == IF a <= b THEN a ELSE b

\* A loop that takes whole chunks past the end of the data.
ChunkEndUnclamped(chunk_start, chunk_size, total_rows) == chunk_start + chunk_size

\* chunk_end = min(chunk_start + chunk_size, total_rows)
ChunkEnd(chunk_start, chunk_size, total_rows) ==
  Min(chunk_start + chunk_size, total_rows)

\* The end of the slice data[chunk_start:chunk_end], which stops at the data's end.
SliceEnd(chunk_end, total_rows) == Min(chunk_end, total_rows)

\* progress = (chunk_end / total_rows) * 100, kept as the exact quotient
\* num/den; the float is 100.0 exactly when chunk_end = total_rows.
Progress(chunk_end, total_rows) == [num |-> chunk_end * 100, den |-> total_rows]

\* A loop that goes on to the next cell after a cell fill raised.
FaultIgnored(faulted) == FALSE

\* `except Exception: return False` around the chunk: a fault ends the call.
FaultAborts(faulted) == faulted

NoLarge == [pc |-> "idle", data |-> <<>>, chunk_size |-> 1, callback |-> FALSE,
            create |-> "none", tables |-> <<>>, fills |-> <<>>, callbacks |-> <<>>,
            chunk_start |-> 0, row |-> 0, faulted |-> FALSE, fills_at_fault |-> 0,
            callbacks_at_fault |-> 0, result |-> "none", raised |-> "none"]

\* The cells <<row, 1>> .. <<row, n>> of table row `row`, in column order.
RowCells(row, n) == [j \in 1..n |-> <<row, j>>]

\* insert_large_table_data(data, chunk_size, progress_callback) up to the table
\* creation: the connection guard, the chunk size, the empty-data return.
LargeStart ==
  /\ large.pc \in {"idle", "done", "raised"}
  /\ \E data \in DataShapes, chunk_size \in ChunkSizes, callback \in BOOLEAN :
       LET l == [NoLarge EXCEPT !.data = data, !.chunk_size = chunk_size,
                                !.callback = callback] IN
       large' = IF ~RequireHwpConnection
                  THEN [l EXCEPT !.pc = "raised", !.raised = "HwpNotRunningError"]
                ELSE IF Len(data) = 0
                  THEN [l EXCEPT !.pc = "done", !.result = "True"]
                ELSE [l EXCEPT !.pc = "create"]
  /\ UNCHANGED <<txnVars, batchVars, loopVars, wordVars, multi, split, configVars, toolVars>>

\* hwp_controller.insert_table(total_rows, cols) with cols = len(data[0]): a
\* falsy return ends the call with False; a raised fault is not caught here and
\* leaves the call (HwpController.insert_table raises on every failure).
LargeCreate ==
  /\ large.pc = "create"
  /\ \E outcome \in {"True", "False", "raises"} :
       large' = IF outcome = "True"
                  THEN [large EXCEPT !.pc = "fill", !.create = outcome,
                          !.tables = Append(@, [rows |-> Len(large.data),
                                                cols |-> large.data[1]])]
                ELSE IF outcome = "False"
                  THEN [large EXCEPT !.pc = "done", !.create = outcome,
                                     !.result = "False"]
                ELSE [large EXCEPT !.pc = "raised", !.create = outcome,
                                   !.raised = "HwpTableError"]
  /\ UNCHANGED <<txnVars, batchVars, loopVars, wordVars, multi, split, configVars, toolVars>>

\* One data row of the current chunk: fill_table_cell(actual_row, col_idx + 1,
\* str(cell_value)) for its cells in order; fault_at is the cell whose fill
\* raises (0: none does). A fault is caught around the chunk and ends the call
\* with False.
LargeRow ==
  /\ large.pc = "fill"
  /\ LET n == large.data[large.row + 1]
         total_rows == Len(large.data)
         chunk_end == ChunkEnd(large.chunk_start, large.chunk_size, total_rows) IN
     \E fault_at \in 0..n :
       LET calls == IF fault_at = 0 THEN n ELSE fault_at
           filled == large.fills \o SubSeq(RowCells(large.row + 1, n), 1, calls) IN
       large' = IF FaultAborts(fault_at # 0)
                  THEN [large EXCEPT !.pc = "done", !.fills = filled,
                                     !.faulted = TRUE,
                                     !.fills_at_fault = Len(filled),
                                     !.callbacks_at_fault = Len(large.callbacks),
                                     !.result = "False"]
                ELSE [large EXCEPT !.fills = filled, !.row = @ + 1,
                        !.faulted = @ \/ fault_at # 0,
                        !.fills_at_fault = IF fault_at # 0 /\ ~large.faulted
                                             THEN Len(filled) ELSE @,
                        !.callbacks_at_fault = IF fault_at # 0 /\ ~large.faulted
                                                 THEN Len(large.callbacks) ELSE @,
                        !.pc = IF large.row + 1 >= SliceEnd(chunk_end, total_rows)
                                 THEN "progress" ELSE "fill"]
  /\ UNCHANGED <<txnVars, batchVars, loopVars, wordVars, multi, split, configVars, toolVars>>

\* The end of a chunk: progress_callback(progress, chunk_end, total_rows) when a
\* callback was given (the callback returns), the short sleep, and the next
\* chunk_start of range(0, total_rows, chunk_size); after the last chunk the call
\* returns True. after_fills notes how many cell fills preceded the callback.
LargeProgress ==
  /\ large.pc = "progress"
  /\ LET total_rows == Len(large.data)
         chunk_end == ChunkEnd(large.chunk_start, large.chunk_size, total_rows)
         next_start == large.chunk_start + large.chunk_size
         called == IF large.callback
                     THEN Append(large.callbacks,
                                 [progress |-> Progress(chunk_end, total_rows),
                                  rows_done |-> chunk_end, total |-> total_rows,
                                  after_fills |-> Len(large.fills)])
                     ELSE large.callbacks IN
     large' = IF next_start >= total_rows
                THEN [large EXCEPT !.callbacks = called, !.pc = "done",
                                   !.result = "True"]
                ELSE [large EXCEPT !.callbacks = called, !.pc = "fill",
                                   !.chunk_start = next_start, !.row = next_start]
  /\ UNCHANGED <<txnVars, batchVars, loopVars, wordVars, multi, split, configVars, toolVars>>

\* -------------------------------------------- process_multiple_documents
\* The "operations" of a task: no operation, one that returns, one that returns
\* and one that faults, and a descriptor without an "action" key.
TaskOperations == {<<>>, <<"insert_text">>, <<"insert_text", "insert_table">>,
                   <<"no_action">>}

TaskLists == UNION {[1..n -> TaskOperations] : n \in 0..MaxTasks}

\* The output path of the task at index i (filename, or output_dir/filename): a
\* name apart from the temporary names of the savepoints.
OutputPath(i) == MaxFiles + 1 + i

NoMulti == [pc |-> "idle", tasks |-> <<>>, idx |-> 0, total |-> 0, success |-> 0,
            failed |-> 0, documents |-> <<>>, handled |-> <<>>, faults |-> <<>>,
            raised |-> "none"]

\* execute_batch(operations, use_transaction=True) as process_multiple_documents
\* calls it (stop_on_error defaults to True), on an empty transaction stack: the
\* savepoint save may raise; the loop stops at the first failing operation, and
\* the failure handler's operation['action'] raises for a descriptor without the
\* key, which rolls the document back; otherwise the commit removes the
\* savepoint. Result: [raised, success, executed, document, reopened], reopened
\* saying that open_document was called on the savepoint.
ExecuteBatchInTransaction(operations, start, saveOk, openOk) ==
  LET k == FirstFailure(operations, 0) IN
  IF ~saveOk
    THEN [raised |-> TRUE, success |-> FALSE, executed |-> 0, document |-> start,
          reopened |-> FALSE]
  ELSE IF k < Len(operations) /\ ~HasActionKey(operations[k + 1])
    THEN [raised |-> TRUE, success |-> FALSE, executed |-> k,
          document |-> IF openOk THEN start ELSE start + k, reopened |-> TRUE]
  ELSE [raised |-> FALSE, success |-> OverallSuccess(IF k < Len(operations) THEN 1 ELSE 0),
        executed |-> k, document |-> start + k, reopened |-> FALSE]

\* process_multiple_documents(document_tasks, output_dir) up to the loop: the
\* connection guard and the results record.
MultiStart ==
  /\ multi.pc \in {"idle", "done", "raised"}
  /\ \E tasks \in TaskLists :
       multi' = IF ~RequireHwpConnection
                  THEN [NoMulti EXCEPT !.pc = "raised", !.tasks = tasks,
                                       !.raised = "HwpNotRunningError"]
                  ELSE [NoMulti EXCEPT !.pc = "loop", !.tasks = tasks,
                                       !.total = Len(tasks)]
  /\ UNCHANGED <<txnVars, batchVars, loopVars, wordVars, large, split, configVars, toolVars>>

\* One iteration of the loop: create_new_document() (its return value is not
\* looked at; the controller returns False for a fault of the FileNew call and
\* raises only a connection fault), execute_batch, save_document(output_path);
\* a raised fault of any of the three is caught and recorded as the document's
\* failure. faults records what went wrong while the task was handled.
MultiTask ==
  /\ multi.pc = "loop"
  /\ multi.idx < Len(multi.tasks)
  /\ next_temp <= MaxFiles
  /\ LET operations == multi.tasks[multi.idx + 1] IN
     \E created \in (IF com_may_fail THEN {"True", "False", "raises"} ELSE {"True"}),
        saveOk \in ComOutcomes, openOk \in ComOutcomes, outOk \in ComOutcomes :
       LET start == IF created = "True" THEN 0 ELSE document
           b == ExecuteBatchInTransaction(operations, start, saveOk, openOk)
           raises == created = "raises" \/ b.raised \/ ~outOk
           fault == IF created # "True" THEN "create"
                    ELSE IF b.raised \/ ~b.success THEN "batch"
                    ELSE IF ~outOk THEN "save" ELSE "none"
           ok == ~raises /\ b.success IN
       /\ start + Len(operations) <= MaxDoc
       /\ multi' = [multi EXCEPT
            !.idx = @ + 1,
            !.handled = Append(@, multi.idx),
            !.faults = Append(@, fault),
            !.success = IF ok THEN @ + 1 ELSE @,
            !.failed = IF ok THEN @ ELSE @ + 1,
            !.documents = Append(@, [index |-> multi.idx, success |-> ok,
                                     error |-> raises])]
       /\ IF created = "raises"
            THEN UNCHANGED <<document, current_document_path, next_temp, open_calls>>
            ELSE /\ document' = b.document
                 /\ next_temp' = next_temp + 1
                 /\ open_calls' = IF b.reopened THEN open_calls \cup {next_temp}
                                                ELSE open_calls
                 /\ current_document_path' =
                      IF ~b.raised /\ outOk THEN OutputPath(multi.idx)
                      ELSE IF saveOk THEN next_temp
                      ELSE IF created = "True" THEN 0
                      ELSE current_document_path
       /\ IF created # "raises" /\ saveOk /\ b.raised /\ ~openOk
            THEN \* the rollback's open_document raised: file and entry stay
                 /\ disk' = disk \cup {next_temp}
                 /\ snapshot' = [snapshot EXCEPT ![next_temp] = start]
                 /\ transaction_stack' =
                      Append(transaction_stack, [savepoint |-> next_temp])
            ELSE UNCHANGED <<disk, snapshot, transaction_stack>>
       /\ last_exit' = NoExit
       /\ UNCHANGED <<in_transaction, scopes, plain_opened, com_may_fail>>
  /\ UNCHANGED <<batchVars, loopVars, wordVars, large, split, configVars, toolVars>>

\* The loop is over: the results record is returned.
MultiReturn ==
  /\ multi.pc = "loop"
  /\ multi.idx = Len(multi.tasks)
  /\ multi' = [multi EXCEPT !.pc = "done"]
  /\ UNCHANGED <<txnVars, batchVars, loopVars, wordVars, large, split, configVars, toolVars>>

\* ------------------------------------------ split_table_data_for_parallel
\* The rows of the data argument, told apart by their content.
RowValues == {"r1", "r2", "r3"}

DataLists == UNION {[1..n -> RowValues] : n \in 0..MaxRows}

\* A chunk size rounded down instead of up.
ChunkSizeFloor(total_rows, num_workers) == total_rows \div num_workers

\* chunk_size = (total_rows + num_workers - 1) // num_workers
ChunkSize(total_rows, num_workers) == (total_rows + num_workers - 1) \div num_workers

\* The number of elements of range(0, total_rows, chunk_size), chunk_size >= 1.
RangeLen(total_rows, chunk_size) == (total_rows + chunk_size - 1) \div chunk_size

\* split_table_data_for_parallel(data, num_workers): num_workers = 0 divides by
\* zero; a chunk_size of 0 makes range(0, total_rows, 0) raise ValueError;
\* otherwise the slices data[i:i + chunk_size] for i in the range.
\* Result: [raised, chunks].
split_table_data_for_parallel(data, num_workers) ==
  IF num_workers = 0
    THEN [raised |-> "ZeroDivisionError", chunks |-> <<>>]
  ELSE LET total_rows == Len(data)
           chunk_size == ChunkSize(total_rows, num_workers) IN
       IF chunk_size = 0
         THEN [raised |-> "ValueError", chunks |-> <<>>]
         ELSE [raised |-> "none",
               chunks |-> [c \in 1..RangeLen(total_rows, chunk_size) |->
                             SubSeq(data, (c - 1) * chunk_size + 1,
                                    Min(c * chunk_size, total_rows))]]

NoSplit == [pc |-> "idle", data |-> <<>>, num_workers |-> 1, chunks |-> <<>>,
            raised |-> "none"]

\* A call of split_table_data_for_parallel (the method has no connection guard).
Split ==
  /\ \E data \in DataLists, num_workers \in 0..MaxWorkers :
       LET r == split_table_data_for_parallel(data, num_workers) IN
       split' = [pc |-> "done", data |-> data, num_workers |-> num_workers,
                 chunks |-> r.chunks, raised |-> r.raised]
  /\ UNCHANGED <<txnVars, batchVars, loopVars, wordVars, large, multi, configVars, toolVars>>

\* ------------------------------------------------- configuration subsystem
\* The candidate paths of _load_config: the path named by HWP_MCP_CONFIG,
\* ./hwp_config.json, ~/.hwp_mcp/config.json and <project root>/hwp_config.json.
EnvPath == "env"
FixedPaths == <<"cwd", "home", "root">>
CandidatePaths == {EnvPath, "cwd", "home", "root"}

\* What a candidate path holds:
\*   "absent"   no file
\*   "invalid"  a file that is not valid JSON
\*   "fields"   a JSON object of fields of the record
\*   "unknown"  a JSON object of fields of the record and one unknown field
FileKinds == {"absent", "invalid", "fields", "unknown"}

\* config_paths, in the order _load_config tries them.
ConfigPaths == IF environ THEN <<EnvPath>> \o FixedPaths ELSE FixedPaths

\* The fields of HwpConfig the model follows, with their defaults (batch_size =
\* BATCH_CHUNK_SIZE, debug_mode = False); shadowed is the set of attributes of
\* the object that are not fields and were assigned on it.
Defaults == [batch_size |-> BATCH_CHUNK_SIZE, debug_mode |-> FALSE, shadowed |-> {}]

FieldNames == {"batch_size", "debug_mode"}

\* The attributes hasattr finds on a record besides its fields: its methods.
MethodNames == {"save"}

\* The known fields the file at a path sets: a batch_size that names the path.
FileBatchSize(path) ==
  IF path = EnvPath THEN 1 ELSE IF path = "cwd" THEN 2
  ELSE IF path = "home" THEN 3 ELSE 4

\* The record made of the known fields of the file at a path.
FileRecord(path) == [Defaults EXCEPT !.batch_size = FileBatchSize(path)]

\* HwpConfig.load(path): validate_file_path(must_exist=True), json.load and
\* from_dict = cls(**data), which raises TypeError for a key that is no field.
\* Result: [raised, record].
HwpConfigLoad(path) ==
  LET kind == config_files[path] IN
  IF kind = "absent" THEN [raised |-> "FileNotFoundError", record |-> Defaults]
  ELSE IF kind = "invalid" THEN [raised |-> "JSONDecodeError", record |-> Defaults]
  ELSE IF kind = "unknown" THEN [raised |-> "TypeError", record |-> Defaults]
  ELSE [raised |-> "none", record |-> FileRecord(path)]

\* The loop of _load_config from position i: the first path that exists and
\* loads gives the record; a path that exists and fails to load is reported
\* (print) and the search goes on; after the last path, HwpConfig().
\* Result: [record, reported, from].
RECURSIVE LoadConfigFrom(_, _)
LoadConfigFrom(i, reported) ==
  IF i > Len(ConfigPaths)
    THEN [record |-> Defaults, reported |-> reported, from |-> "defaults"]
  ELSE LET path == ConfigPaths[i] IN
       IF config_files[path] = "absent" THEN LoadConfigFrom(i + 1, reported)
       ELSE LET r == HwpConfigLoad(path) IN
            IF r.raised = "none"
              THEN [record |-> r.record, reported |-> reported, from |-> path]
              ELSE LoadConfigFrom(i + 1, Append(reported, path))

NoConfigCall == [op |-> "none", key |-> "none", path |-> "none", raised |-> "none",
                 returned |-> 0, reported |-> <<>>, before |-> Defaults,
                 loaded |-> Defaults]

\* hasattr(self._config, key)
HasAttr(key) == key \in FieldNames \cup MethodNames

\* setattr(self._config, key, value) on a record.
SetAttr(record, key, value) ==
  IF key = "batch_size" THEN [record EXCEPT !.batch_size = value]
  ELSE IF key = "debug_mode" THEN [record EXCEPT !.debug_mode = value]
  ELSE [record EXCEPT !.shadowed = @ \cup {key}]

\* The keyword arguments the model passes to update: two fields, a name that is
\* no attribute at all, and the name of a method.
UpdateArgs == {<<"batch_size", 200>>, <<"debug_mode", TRUE>>,
               <<"invalid_attribute", 1>>, <<"save", 1>>}

\* The record objects created so far: 1 .. Len(records).
NewRecord == Len(records) + 1

\* import of config.py. Line 13 imports error_handling_guide.py, whose line 170
\* reads TABLE_MAX_ROWS as a parameter default; that module neither imports nor
\* defines the name, so its import raises NameError, which the
\* `except ImportError` of config.py line 14 does not catch: the import of
\* config.py fails and no manager exists. The name resolves only in a process
\* that put it among the builtins beforehand (resolves); the model follows that
\* process as well, so that the statements of config.py are examined. There the
\* import ends with `config = ConfigManager().config`: the first construction,
\* __new__ creating the instance and __init__ loading the record, to which the
\* module-level name is bound.
ImportConfig ==
  /\ manager_config = 0
  /\ config_call.op = "none"
  /\ \E resolves \in BOOLEAN :
       IF ~resolves
         THEN /\ config_call' = [NoConfigCall EXCEPT !.op = "import",
                                                     !.raised = "NameError"]
              /\ UNCHANGED <<manager_instance, records, manager_config,
                             module_config>>
         ELSE LET r == LoadConfigFrom(1, <<>>) IN
              /\ manager_instance' = 1
              /\ records' = Append(records, r.record)
              /\ manager_config' = NewRecord
              /\ module_config' = NewRecord
              /\ config_call' = [NoConfigCall EXCEPT !.op = "construct",
                                   !.path = r.from, !.returned = NewRecord,
                                   !.reported = r.reported]
  /\ UNCHANGED <<environ, config_files>>
  /\ UNCHANGED <<txnVars, batchVars, loopVars, wordVars, large, multi, split, toolVars>>

\* ConfigManager() after the import: __new__ returns _instance, __init__ finds
\* _config set and loads nothing.
ConfigManagerCall ==
  /\ manager_config # 0
  /\ config_call' = [NoConfigCall EXCEPT !.op = "ConfigManager",
                                         !.returned = manager_config]
  /\ UNCHANGED <<environ, config_files, manager_instance, manager_config,
                 module_config, records>>
  /\ UNCHANGED <<txnVars, batchVars, loopVars, wordVars, large, multi, split, toolVars>>

\* get_config(): ConfigManager().config, after the module was imported.
GetConfig ==
  /\ manager_config # 0
  /\ config_call' = [NoConfigCall EXCEPT !.op = "get_config",
                                         !.returned = manager_config]
  /\ UNCHANGED <<environ, config_files, manager_instance, manager_config,
                 module_config, records>>
  /\ UNCHANGED <<txnVars, batchVars, loopVars, wordVars, large, multi, split, toolVars>>

\* update_config(**kwargs) with one keyword: setattr when hasattr finds the key.
UpdateConfig ==
  /\ manager_config # 0
  /\ \E arg \in UpdateArgs :
       /\ records' = [records EXCEPT ![manager_config] =
                        IF HasAttr(arg[1]) THEN SetAttr(@, arg[1], arg[2]) ELSE @]
       /\ config_call' = [NoConfigCall EXCEPT !.op = "update", !.key = arg[1],
                                              !.before = records[manager_config]]
  /\ UNCHANGED <<environ, config_files, manager_instance, manager_config,
                 module_config>>
  /\ UNCHANGED <<txnVars, batchVars, loopVars, wordVars, large, multi, split, toolVars>>

\* reset_config(): self._config = HwpConfig(), a new record object.
ResetConfig ==
  /\ manager_config # 0
  /\ Len(records) <= MaxResets
  /\ records' = Append(records, Defaults)
  /\ manager_config' = NewRecord
  /\ config_call' = [NoConfigCall EXCEPT !.op = "reset",
                                         !.before = records[manager_config]]
  /\ UNCHANGED <<environ, config_files, manager_instance, module_config>>
  /\ UNCHANGED <<txnVars, batchVars, loopVars, wordVars, large, multi, split, toolVars>>

\* HwpConfig.load(path) called directly on one of the files.
LoadFile ==
  /\ manager_config # 0
  /\ \E path \in CandidatePaths :
       LET r == HwpConfigLoad(path) IN
       config_call' = [NoConfigCall EXCEPT !.op = "load", !.path = path,
                                           !.raised = r.raised, !.loaded = r.record]
  /\ UNCHANGED <<environ, config_files, manager_instance, manager_config,
                 module_config, records>>
  /\ UNCHANGED <<txnVars, batchVars, loopVars, wordVars, large, multi, split, toolVars>>

\* ------------------------------------------------ table-coordinate validation
TABLE_MAX_ROWS == 100
TABLE_MAX_COLS == 100

\* The coordinates and the maxima the validators are called with: around the
\* explicit maxima and around the defaults.
Coordinates == (-1 .. MaxCoord + 1) \cup {50, TABLE_MAX_ROWS, TABLE_MAX_ROWS + 1}
Maxima == {MaxCoord, TABLE_MAX_ROWS}

\* guide: "unimported", "imported", or "NameError" when the import raised.
NoValidation == [guide |-> "unimported", validator |-> "none", row |-> 0, col |-> 0,
                 max_rows |-> 0, max_cols |-> 0, raised |-> "none"]

\* hwp_utils.validate_table_coordinates: the fault it raises, "none" when it
\* returns.
UtilsValidate(row, col, max_rows, max_cols) ==
  IF row < 1 \/ row > max_rows THEN "ValueError"
  ELSE IF col < 1 \/ col > max_cols THEN "ValueError"
  ELSE "none"

\* error_handling_guide.validate_table_coordinates, called with integers: the
\* fault it raises, "none" when it returns.
GuideValidate(row, col, max_rows, max_cols) ==
  IF row < 1 THEN "HwpInvalidParameterError"
  ELSE IF col < 1 THEN "HwpInvalidParameterError"
  ELSE IF row > max_rows \/ col > max_cols THEN "HwpTableRangeError"
  ELSE "none"

\* validate_table_coordinates of hwp_utils.py.
ValidateUtils ==
  /\ \E row \in Coordinates, col \in Coordinates, max_rows \in Maxima, max_cols \in Maxima :
       validation' = [validation EXCEPT !.validator = "utils", !.row = row,
                        !.col = col, !.max_rows = max_rows, !.max_cols = max_cols,
                        !.raised = UtilsValidate(row, col, max_rows, max_cols)]
  /\ UNCHANGED <<txnVars, batchVars, loopVars, wordVars, large, multi, split, configVars>>
  /\ UNCHANGED <<fileio, conn, table, inserted, server, table_tool>>

\* import of error_handling_guide.py. The def statement of its
\* validate_table_coordinates (line 169) evaluates the parameter defaults
\* TABLE_MAX_ROWS and TABLE_MAX_COLS, names the module neither imports nor
\* defines: NameError, and the module, its validator included, does not come
\* into being. The names resolve only in a process that put them among the
\* builtins beforehand (resolves); the model follows that process as well.
ImportGuide ==
  /\ validation.guide = "unimported"
  /\ \E resolves \in BOOLEAN :
       validation' = [validation EXCEPT
                        !.guide = IF resolves THEN "imported" ELSE "NameError",
                        !.validator = "guide import",
                        !.raised = IF resolves THEN "none" ELSE "NameError"]
  /\ UNCHANGED <<txnVars, batchVars, loopVars, wordVars, large, multi, split, configVars>>
  /\ UNCHANGED <<fileio, conn, table, inserted, server, table_tool>>

\* validate_table_coordinates of error_handling_guide.py, once the module exists.
ValidateGuide ==
  /\ validation.guide = "imported"
  /\ \E row \in Coordinates, col \in Coordinates, max_rows \in Maxima, max_cols \in Maxima :
       validation' = [validation EXCEPT !.validator = "guide", !.row = row,
                        !.col = col, !.max_rows = max_rows, !.max_cols = max_cols,
                        !.raised = GuideValidate(row, col, max_rows, max_cols)]
  /\ UNCHANGED <<txnVars, batchVars, loopVars, wordVars, large, multi, split, configVars>>
  /\ UNCHANGED <<fileio, conn, table, inserted, server, table_tool>>

\* ------------------------------------------------ HwpConfig.save and load
\* The records given to save: fields of each declared kind (bool, int, str,
\* Dict[str, int], list of str); shadowed as in Defaults.
DEFAULT_MARGINS == {<<"top", 20>>, <<"bottom", 20>>, <<"left", 30>>, <<"right", 30>>}
MarginValues == {DEFAULT_MARGINS, {}}
FormatValues == {<<".jpg", ".png">>, <<>>}
FontValues == {"Malgun Gothic", "NanumGothic"}
SaveRecords ==
  [debug_mode : BOOLEAN, batch_size : {200},
   default_font : FontValues, default_margins : MarginValues,
   allowed_image_formats : FormatValues, shadowed : {{}, {"save"}}]

SavePaths == {"a.json", "dir/b.json"}

\* json.dump of the values of each kind: the JSON value written.
JsonBool(b) == IF b THEN "true" ELSE "false"
JsonNumber(n) == [number |-> n]
JsonString(s) == [string |-> s]
JsonArray(list) == [array |-> [i \in 1..Len(list) |-> JsonString(list[i])]]
JsonObject(dict) == [object |-> {<<JsonString(m[1]), JsonNumber(m[2])>> : m \in dict}]

\* json.dump(self.to_dict()): asdict takes the dataclass fields, so an
\* attribute assigned on the object that is no field is not written.
DumpRecord(R) ==
  [debug_mode |-> JsonBool(R.debug_mode), batch_size |-> JsonNumber(R.batch_size),
   default_font |-> JsonString(R.default_font),
   default_margins |-> JsonObject(R.default_margins),
   allowed_image_formats |-> JsonArray(R.allowed_image_formats)]

\* json.load of each JSON value: the Python value read.
PyBool(j) == j = "true"
PyNumber(j) == j.number
PyString(j) == j.string
PyList(j) == [i \in 1..Len(j.array) |-> PyString(j.array[i])]
PyDict(j) == {<<PyString(m[1]), PyNumber(m[2])>> : m \in j.object}

\* HwpConfig.from_dict(json.load(f)): cls(**data), a new object.
LoadRecord(json) ==
  [debug_mode |-> PyBool(json.debug_mode), batch_size |-> PyNumber(json.batch_size),
   default_font |-> PyString(json.default_font),
   default_margins |-> PyDict(json.default_margins),
   allowed_image_formats |-> PyList(json.allowed_image_formats),
   shadowed |-> {}]

\* HwpConfig(): every field at its default.
DefaultRecord ==
  [debug_mode |-> FALSE, batch_size |-> BATCH_CHUNK_SIZE,
   default_font |-> "Malgun Gothic", default_margins |-> DEFAULT_MARGINS,
   allowed_image_formats |-> <<".jpg", ".png">>, shadowed |-> {}]

\* module: "unimported", "imported", or "NameError" when the import raised;
\* written: the files written so far, as <<path, JSON>>.
NoFileIo == [module |-> "unimported", op |-> "none", path |-> "none",
             R |-> DefaultRecord, loaded |-> DefaultRecord,
             written |-> {}, raised |-> "none"]

\* import of config.py by the round-trip process: see ImportConfig.
ImportForSave ==
  /\ fileio.module = "unimported"
  /\ \E resolves \in BOOLEAN :
       fileio' = [fileio EXCEPT
                    !.module = IF resolves THEN "imported" ELSE "NameError",
                    !.op = "import",
                    !.raised = IF resolves THEN "none" ELSE "NameError"]
  /\ UNCHANGED <<txnVars, batchVars, loopVars, wordVars, large, multi, split, configVars>>
  /\ UNCHANGED <<validation, conn, table, inserted, server, table_tool>>

\* R.save(path): validate_file_path, os.makedirs of the directory, json.dump.
\* An object on which update(save=...) assigned the attribute save has that
\* value in place of the method: calling it raises TypeError.
SaveRecord ==
  /\ fileio.module = "imported"
  /\ \E R \in SaveRecords, path \in SavePaths :
       IF "save" \in R.shadowed
         THEN fileio' = [fileio EXCEPT !.op = "save", !.path = path, !.R = R,
                                       !.raised = "TypeError",
                                       !.loaded = DefaultRecord]
         ELSE fileio' = [fileio EXCEPT !.op = "save", !.path = path, !.R = R,
                           !.raised = "none", !.loaded = DefaultRecord,
                           !.written = {w \in @ : w[1] # path}
                                         \cup {<<path, DumpRecord(R)>>}]
  /\ UNCHANGED <<txnVars, batchVars, loopVars, wordVars, large, multi, split, configVars>>
  /\ UNCHANGED <<validation, conn, table, inserted, server, table_tool>>

\* HwpConfig.load(path) of the file the last save wrote.
LoadSaved ==
  /\ fileio.module = "imported"
  /\ fileio.op = "save" /\ fileio.raised = "none"
  /\ LET json == (CHOOSE w \in fileio.written : w[1] = fileio.path)[2] IN
     fileio' = [fileio EXCEPT !.op = "load", !.loaded = LoadRecord(json)]
  /\ UNCHANGED <<txnVars, batchVars, loopVars, wordVars, large, multi, split, configVars>>
  /\ UNCHANGED <<validation, conn, table, inserted, server, table_tool>>

\* ------------------------------------------- HwpController: the connection
\* hwp: the automation handle, 0 = None, else the number of the Dispatch call
\* that made it; dispatched: the handles made so far; before: hwp and
\* is_hwp_running when the last call began.
NoConn == [hwp |-> 0, is_hwp_running |-> FALSE, dispatched |-> 0, op |-> "none",
           returned |-> "none", raised |-> "none",
           before |-> [hwp |-> 0, is_hwp_running |-> FALSE]]

ConnBefore == [hwp |-> conn.hwp, is_hwp_running |-> conn.is_hwp_running]

\* connect(): Dispatch gives a new handle or raises (OSError is wrapped in
\* HwpConnectionError, any other fault leaves as it is); the security module
\* registration swallows its faults; then the window is made visible and the
\* flag is set, or HwpConnectionError is raised with the new handle kept in
\* self.hwp. Result: the controller state after the call.
connect(c, dispatch, windowOk) ==
  IF dispatch = "OSError" THEN [c EXCEPT !.raised = "HwpConnectionError", !.returned = "none"]
  ELSE IF dispatch = "com_error" THEN [c EXCEPT !.raised = "com_error", !.returned = "none"]
  ELSE IF windowOk
    THEN [c EXCEPT !.hwp = c.dispatched + 1, !.dispatched = @ + 1,
                   !.is_hwp_running = TRUE, !.returned = "True", !.raised = "none"]
    ELSE [c EXCEPT !.hwp = c.dispatched + 1, !.dispatched = @ + 1,
                   !.returned = "none", !.raised = "HwpConnectionError"]

DispatchOutcomes == {"ok", "OSError", "com_error"}

Connect ==
  /\ conn.dispatched < MaxConnects
  /\ \E dispatch \in DispatchOutcomes, windowOk \in BOOLEAN :
       conn' = connect([conn EXCEPT !.op = "connect", !.before = ConnBefore],
                       dispatch, windowOk)
  /\ UNCHANGED <<txnVars, batchVars, loopVars, wordVars, large, multi, split, configVars>>
  /\ UNCHANGED <<validation, fileio, table, inserted, server, table_tool>>

\* disconnect(): releases the handle and clears the flag when the flag is set;
\* returns True.
Disconnect ==
  /\ conn' = [conn EXCEPT !.op = "disconnect", !.before = ConnBefore,
                !.hwp = IF conn.is_hwp_running THEN 0 ELSE @,
                !.is_hwp_running = FALSE,
                !.returned = "True", !.raised = "none"]
  /\ UNCHANGED <<txnVars, batchVars, loopVars, wordVars, large, multi, split, configVars>>
  /\ UNCHANGED <<validation, fileio, table, inserted, server, table_tool>>

\* is_connected(): False when the flag is clear or the handle is None; else the
\* probe self.hwp.Version: True, or on a fault the flag is cleared and False
\* returned.
IsConnected ==
  /\ \E probeOk \in BOOLEAN :
       conn' = IF ~conn.is_hwp_running \/ conn.hwp = 0
                 THEN [conn EXCEPT !.op = "is_connected", !.before = ConnBefore,
                         !.returned = "False", !.raised = "none"]
               ELSE IF probeOk
                 THEN [conn EXCEPT !.op = "is_connected", !.before = ConnBefore,
                         !.returned = "True", !.raised = "none"]
               ELSE [conn EXCEPT !.op = "is_connected", !.before = ConnBefore,
                       !.is_hwp_running = FALSE,
                       !.returned = "False", !.raised = "none"]
  /\ UNCHANGED <<txnVars, batchVars, loopVars, wordVars, large, multi, split, configVars>>
  /\ UNCHANGED <<validation, fileio, table, inserted, server, table_tool>>

\* create_new_document(): connects first when the flag is clear
\* (HwpConnectionError is raised on, any other fault gives False), then runs
\* FileNew: True, or False on a fault.
CreateNewDocument ==
  /\ conn.dispatched < MaxConnects
  /\ \E dispatch \in DispatchOutcomes, windowOk \in BOOLEAN, runOk \in BOOLEAN :
       LET c0 == [conn EXCEPT !.op = "create_new_document", !.before = ConnBefore]
           c1 == IF conn.is_hwp_running THEN [c0 EXCEPT !.raised = "none"]
                 ELSE connect(c0, dispatch, windowOk)
       IN conn' = IF c1.raised = "HwpConnectionError" THEN c1
                  ELSE IF c1.raised = "com_error"
                    THEN [c1 EXCEPT !.raised = "none", !.returned = "False"]
                  ELSE [c1 EXCEPT !.returned = IF runOk THEN "True" ELSE "False"]
  /\ UNCHANGED <<txnVars, batchVars, loopVars, wordVars, large, multi, split, configVars>>
  /\ UNCHANGED <<validation, fileio, table, inserted, server, table_tool>>

\* ------------------------------------------- HwpController.fill_table_with_data
\* The table the caret is in has MaxRows x MaxCols cells; a cell holds a text and
\* the boldness that text was inserted with. Outside: the caret is not in the
\* table.
TableCells == (1..MaxRows) \X (1..MaxCols)
Outside == <<0, 0>>
CellValues == {"a", "b"}

RECURSIVE SeqsUpTo(_, _)
SeqsUpTo(S, n) ==
  IF n = 0 THEN {<<>>}
  ELSE SeqsUpTo(S, n - 1) \cup {Append(s, x) : s \in SeqsUpTo(S, n - 1), x \in S}

FillRowsOfData == SeqsUpTo(CellValues, MaxCols)
FillData == SeqsUpTo(FillRowsOfData, MaxFillRows)

\* The editor as the automation interface shows it, t = [cells, cursor, bold,
\* style0, carries]: bold is the character shape in effect for the text
\* inserted next. The interface is not part of the repository: when the caret
\* enters another position, the shape in effect either stays (carries: the
\* shape set "for the text typed next", set_font_style's docstring) or becomes
\* the shape of that position. Both are followed.
ShapeAt(t, pos) == IF pos = Outside THEN t.style0 ELSE t.cells[pos].bold

EnterPosition(t, pos) ==
  [t EXCEPT !.cursor = pos, !.bold = IF t.carries THEN @ ELSE ShapeAt(t, pos)]

\* hwp.Run of the caret actions, from a cell of the table.
TableLowerCell(t) ==
  IF t.cursor[1] < MaxRows THEN EnterPosition(t, <<t.cursor[1] + 1, t.cursor[2]>>) ELSE t

TableRightCell(t) ==
  IF t.cursor[2] < MaxCols THEN EnterPosition(t, <<t.cursor[1], t.cursor[2] + 1>>)
  ELSE IF t.cursor[1] < MaxRows THEN EnterPosition(t, <<t.cursor[1] + 1, 1>>)
  ELSE t

TableLeftCell(t) ==
  IF t.cursor[2] > 1 THEN EnterPosition(t, <<t.cursor[1], t.cursor[2] - 1>>)
  ELSE IF t.cursor[1] > 1 THEN EnterPosition(t, <<t.cursor[1] - 1, MaxCols>>)
  ELSE t

\* MoveDown: one line down, which from a cell is the cell below, and from a
\* cell of the last row the line after the table.
MoveDown(t) ==
  IF t.cursor[1] < MaxRows THEN EnterPosition(t, <<t.cursor[1] + 1, t.cursor[2]>>)
  ELSE EnterPosition(t, Outside)

\* for _ in range(n): hwp.Run(...)
RECURSIVE Lower(_, _)
Lower(t, n) == IF n <= 0 THEN t ELSE Lower(TableLowerCell(t), n - 1)
RECURSIVE Right(_, _)
Right(t, n) == IF n <= 0 THEN t ELSE Right(TableRightCell(t), n - 1)
RECURSIVE Left(_, _)
Left(t, n) == IF n <= 0 THEN t ELSE Left(TableLeftCell(t), n - 1)

\* set_font_style(bold=...) -> set_font_properties: GetDefault("CharShape")
\* loads the shape in effect, Bold = 1 is assigned only `if bold:`, Execute
\* applies the set; with bold=False nothing is assigned and the shape in effect
\* stays as it is.
set_font_style(t, bold) == IF bold THEN [t EXCEPT !.bold = TRUE] ELSE t

\* InsertText of a value at the caret, with the shape in effect.
InsertCellText(t, value) ==
  [t EXCEPT !.cells[t.cursor] = [text |-> value, bold |-> t.bold]]

\* _move_to_table_start: to the first cell, then down and right.
MoveToTableStart(t, start_row, start_col) ==
  Right(Lower(EnterPosition(t, <<1, 1>>), start_row - 1), start_col - 1)

\* _fill_table_row from cell j of the row on: TableSelCell and Delete empty the
\* cell, the value is inserted (between set_font_style(bold=True) and
\* set_font_style(bold=False) for the header row), TableRightCell unless it was
\* the last cell of the row.
RECURSIVE FillTableRow(_, _, _, _)
FillTableRow(t, row_data, j, header) ==
  IF j > Len(row_data) THEN t
  ELSE LET cleared == [t EXCEPT !.cells[t.cursor].text = ""]
           filled == IF header
                       THEN set_font_style(
                              InsertCellText(set_font_style(cleared, TRUE), row_data[j]),
                              FALSE)
                       ELSE InsertCellText(cleared, row_data[j])
           moved == IF j < Len(row_data) THEN TableRightCell(filled) ELSE filled
       IN FillTableRow(moved, row_data, j + 1, header)

\* _move_to_next_row(col_count)
MoveToNextRow(t, col_count) == TableLowerCell(Left(t, col_count - 1))

\* _exit_table: TableSelCell, Cancel, MoveDown.
ExitTable(t) == MoveDown(t)

\* The loop of fill_table_with_data from row i on (1-based here); fault_row is
\* the row whose first automation call raises, 0 for none. Result: [t, returned].
RECURSIVE FillFrom(_, _, _, _, _)
FillFrom(t, data, i, has_header, fault_row) ==
  IF i > Len(data) THEN [t |-> ExitTable(t), returned |-> "True"]
  ELSE IF i = fault_row THEN [t |-> t, returned |-> "False"]
  ELSE LET row == FillTableRow(t, data[i], 1, has_header /\ i = 1)
       IN FillFrom(IF i < Len(data) THEN MoveToNextRow(row, Len(data[i])) ELSE row,
                   data, i + 1, has_header, fault_row)

\* Whether the table can hold the data from the start cell.
Fits(data, start_row, start_col) ==
  /\ start_row + Len(data) - 1 <= MaxRows
  /\ \A i \in 1..Len(data) : start_col + Len(data[i]) - 1 <= MaxCols

EmptyCells == [pos \in TableCells |-> [text |-> "old", bold |-> FALSE]]
NoFill == [op |-> "none", data |-> <<>>, start_row |-> 1, start_col |-> 1,
           has_header |-> FALSE, returned |-> "none", cells_before |-> EmptyCells,
           bold_before |-> FALSE, typed_bold |-> FALSE]
NoTable == [cells |-> EmptyCells, cursor |-> Outside, bold |-> FALSE,
            style0 |-> FALSE, carries |-> FALSE, fills |-> 0, call |-> NoFill]

\* The editor state of a record of table.
Editor(tb) == [cells |-> tb.cells, cursor |-> tb.cursor, bold |-> tb.bold,
               style0 |-> tb.style0, carries |-> tb.carries]

\* fill_table_with_data(data, start_row, start_col, has_header) with the caret
\* in the table.
FillTableWithData ==
  /\ table.cursor # Outside
  /\ table.fills < MaxFills
  /\ \E data \in FillData, start_row \in 1..MaxRows, start_col \in 1..MaxCols,
        has_header \in BOOLEAN :
       /\ Fits(data, start_row, start_col)
       /\ \E fault_row \in 0..Len(data) :
            LET r == FillFrom(MoveToTableStart(Editor(table), start_row, start_col),
                              data, 1, has_header, fault_row)
            IN table' = [table EXCEPT
                           !.cells = r.t.cells, !.cursor = r.t.cursor,
                           !.bold = r.t.bold, !.fills = @ + 1,
                           !.call = [op |-> "fill", data |-> data,
                                     start_row |-> start_row, start_col |-> start_col,
                                     has_header |-> has_header, returned |-> r.returned,
                                     cells_before |-> table.cells,
                                     bold_before |-> table.bold,
                                     typed_bold |-> FALSE]]
  /\ UNCHANGED <<txnVars, batchVars, loopVars, wordVars, large, multi, split, configVars>>
  /\ UNCHANGED <<validation, fileio, conn, inserted, server, table_tool>>

\* Text typed after the fill: inserted at the caret with the shape in effect.
TypeAfterFill ==
  /\ table.call.op = "fill"
  /\ table.call.returned = "True"
  /\ table' = [table EXCEPT !.call.op = "type", !.call.typed_bold = table.bold]
  /\ UNCHANGED <<txnVars, batchVars, loopVars, wordVars, large, multi, split, configVars>>
  /\ UNCHANGED <<validation, fileio, conn, inserted, server, table_tool>>

\* ------------------------------------------------ HwpController.insert_text
\* A text is a sequence of characters: a letter, a space, a line break.
LineBreak == "\n"
TextChars == {"x", " ", LineBreak}
Texts == SeqsUpTo(TextChars, MaxText)

\* text.split('\n'), from character i on, cur being the line collected so far.
RECURSIVE SplitFrom(_, _, _)
SplitFrom(text, i, cur) ==
  IF i > Len(text) THEN <<cur>>
  ELSE IF text[i] = LineBreak THEN <<cur>> \o SplitFrom(text, i + 1, <<>>)
  ELSE SplitFrom(text, i + 1, Append(cur, text[i]))

SplitLines(text) == SplitFrom(text, 1, <<>>)

\* line.strip(): the line without its leading and trailing spaces.
RECURSIVE LStrip(_)
LStrip(line) ==
  IF line # <<>> /\ Head(line) = " " THEN LStrip(Tail(line)) ELSE line
RECURSIVE RStrip(_)
RStrip(line) ==
  IF line # <<>> /\ line[Len(line)] = " " THEN RStrip(Front(line)) ELSE line
StripLine(line) == RStrip(LStrip(line))

\* An insert_text that gives every line to _insert_text_direct.
EveryLineInserted(line) == TRUE

\* `if line.strip():` the line is given to _insert_text_direct.
LineInserted(line) == StripLine(line) # <<>>

InsertCall(line) == [action |-> "InsertText", text |-> line]
BreakPara == [action |-> "BreakPara", text |-> <<>>]

\* The loop over the lines from line i on: insert_paragraph before every line
\* but the first, _insert_text_direct for the lines that pass the test.
RECURSIVE LineCalls(_, _)
LineCalls(lines, i) ==
  IF i > Len(lines) THEN <<>>
  ELSE (IF i > 1 THEN <<BreakPara>> ELSE <<>>)
       \o (IF LineInserted(lines[i]) THEN <<InsertCall(lines[i])>> ELSE <<>>)
       \o LineCalls(lines, i + 1)

HasLineBreak(text) == \E i \in 1..Len(text) : text[i] = LineBreak

NoInsert == [op |-> "none", text |-> <<>>, preserve_linebreaks |-> TRUE,
             running |-> FALSE, calls |-> <<>>, returned |-> "none"]

\* insert_text(text, preserve_linebreaks) on a controller whose is_hwp_running is
\* `running`; the automation calls are taken to return.
InsertText ==
  /\ \E text \in Texts, preserve \in BOOLEAN, running \in BOOLEAN :
       inserted' =
         [op |-> "insert_text", text |-> text, preserve_linebreaks |-> preserve,
          running |-> running,
          calls |-> IF ~running THEN <<>>
                    ELSE IF preserve /\ HasLineBreak(text)
                      THEN LineCalls(SplitLines(text), 1)
                    ELSE <<InsertCall(text)>>,
          returned |-> IF running THEN "True" ELSE "False"]
  /\ UNCHANGED <<txnVars, batchVars, loopVars, wordVars, large, multi, split, configVars>>
  /\ UNCHANGED <<validation, fileio, conn, table, server, table_tool>>

\* ------------------------------------- hwp_batch_operations (tool server)
\* The attributes HwpBatchProcessor.__init__ gives a processor built on a
\* connected controller: hwp is the controller's handle; is_hwp_running is not
\* set by __init__ (hasattr is false).
ProcessorInit == [is_hwp_running |-> FALSE, hwp |-> TRUE]

\* require_hwp_connection on the processor p.
GuardPasses(p) == p.is_hwp_running /\ p.hwp

\* The tool hwp_batch_operations(operations, use_transaction, stop_on_error):
\* get_hwp_controller() (connected or None), json.loads (parsed or
\* JSONDecodeError), a new HwpBatchProcessor(hwp), then execute_batch up to its
\* first operation. The early returns and the fault of the guard end the call
\* with an "Error: ..." text; otherwise the loop runs as in BatchOp and
\* BatchReturn and the results record is returned as JSON.
HwpBatchOperations ==
  /\ BatchIdle
  /\ \E ops \in OperationLists, ut \in BOOLEAN, soe \in BOOLEAN,
        connected \in BOOLEAN, parsed \in BOOLEAN,
        saveOk \in ComOutcomes, openOk \in ComOutcomes :
       LET b == [NoBatch EXCEPT !.operations = ops, !.use_transaction = ut,
                                !.stop_on_error = soe,
                                !.start_document = document,
                                !.tool = "hwp_batch_operations",
                                !.connected = connected, !.parsed = parsed] IN
       /\ document + Len(ops) <= MaxDoc
       /\ IF ~connected \/ ~parsed
            THEN /\ batch' = [b EXCEPT !.pc = "refused"]
                 /\ UNCHANGED <<is_hwp_running_attr, processor_hwp>>
                 /\ last_exit' = NoExit
                 /\ UNCHANGED <<transaction_stack, in_transaction, scopes, disk,
                                snapshot, document, current_document_path,
                                next_temp, open_calls>>
            ELSE /\ is_hwp_running_attr' = ProcessorInit.is_hwp_running
                 /\ processor_hwp' = ProcessorInit.hwp
                 /\ IF ~GuardPasses(ProcessorInit)
                      THEN /\ batch' = [b EXCEPT !.pc = "raised",
                                                 !.raised = "HwpNotRunningError"]
                           /\ last_exit' = NoExit
                           /\ UNCHANGED <<transaction_stack, in_transaction, scopes,
                                          disk, snapshot, document,
                                          current_document_path, next_temp,
                                          open_calls>>
                      ELSE IF ut
                        THEN /\ Len(scopes) < MaxDepth
                             /\ next_temp <= MaxFiles
                             /\ TxnEnter(TRUE, saveOk, openOk)
                             /\ batch' = IF saveOk
                                           THEN [b EXCEPT !.pc = "loop",
                                                          !.entered = TRUE]
                                           ELSE [b EXCEPT !.pc = "raised",
                                                          !.raised = last_exit'.raised]
                        ELSE /\ batch' = [b EXCEPT !.pc = "loop", !.entered = TRUE]
                             /\ last_exit' = NoExit
                             /\ UNCHANGED <<transaction_stack, in_transaction,
                                            scopes, disk, snapshot, document,
                                            current_document_path, next_temp,
                                            open_calls>>
  /\ UNCHANGED <<plain_opened, com_may_fail, loopVars, otherVars>>

\* The text the tool call that ended last returned: the results record as JSON,
\* or "Error: ..." (an early return, or the `except Exception` of the tool).
ToolReturned ==
  IF batch.tool = "none" \/ batch.pc = "loop" THEN "none"
  ELSE IF batch.pc = "done" THEN "results" ELSE "Error"

\* -------------------------------------- the HWP tool server's singletons
\* hwp_controller: 0 = None, else the number of the HwpController object in
\* the slot; ctl: that object's hwp and is_hwp_running (dispatched: the handles
\* made by the process so far); made: the controllers constructed so far;
\* hwp_table_tools: 0 = None, else the number of the controller the
\* HwpTableTools object is bound to; got, got_live: what get_hwp_controller
\* returned to the last tool call, and whether that controller's connection
\* was live then; failed: the last tool call made a connection attempt that
\* raised.
NoServer == [hwp_controller |-> 0, ctl |-> NoConn, made |-> 0,
             hwp_table_tools |-> 0, op |-> "none", got |-> 0, got_live |-> FALSE,
             got_tools |-> 0, failed |-> FALSE, returned |-> "none"]

\* A controller's connection is live: the flag is set and the handle is held.
Live(c) == c.is_hwp_running /\ c.hwp # 0

\* HwpController(): hwp = None, is_hwp_running = False.
NewController(s) == [NoConn EXCEPT !.dispatched = s.ctl.dispatched]

\* get_hwp_controller(): with an empty slot, a new controller is put into the
\* slot and then connected; a raising connect() is caught and None returned;
\* after a connect() that returned, the table tools are rebuilt on the new
\* controller. With a filled slot, the controller in it is returned as it is.
get_hwp_controller(s, dispatch, windowOk) ==
  IF s.hwp_controller # 0
    THEN [s EXCEPT !.got = s.hwp_controller, !.got_live = Live(s.ctl)]
    ELSE LET c == connect(NewController(s), dispatch, windowOk)
             s1 == [s EXCEPT !.hwp_controller = s.made + 1, !.made = @ + 1,
                             !.ctl = c]
         IN IF c.raised # "none"
              THEN [s1 EXCEPT !.got = 0, !.got_live = FALSE, !.failed = TRUE]
              ELSE [s1 EXCEPT !.hwp_table_tools = s1.hwp_controller,
                              !.got = s1.hwp_controller, !.got_live = Live(c)]

\* get_hwp_table_tools(): with no tools object, the slot is assigned what
\* get_hwp_controller() returns (None after a failed attempt) and a tools
\* object is built on a controller that was returned; an existing tools
\* object is returned as it is.
get_hwp_table_tools(s, dispatch, windowOk) ==
  IF s.hwp_table_tools # 0
    THEN [s EXCEPT !.got_tools = s.hwp_table_tools]
    ELSE LET s1 == get_hwp_controller(s, dispatch, windowOk)
             s2 == IF s1.got = 0
                     THEN [s1 EXCEPT !.hwp_controller = 0,
                                     !.ctl = NewController(s1)]
                     ELSE s1
         IN [s2 EXCEPT !.hwp_table_tools = s2.got, !.got_tools = s2.got]

\* The beginning of a tool call.
ToolCall(op) == [server EXCEPT !.op = op, !.got = 0, !.got_live = FALSE,
                               !.got_tools = 0, !.failed = FALSE,
                               !.returned = "none"]

ServerOthers ==
  /\ UNCHANGED <<txnVars, batchVars, loopVars, wordVars, large, multi, split, configVars>>
  /\ UNCHANGED <<validation, fileio, conn, table, inserted, table_tool>>

\* hwp_get_text(), as one of the tools that ask for the controller and use it
\* without touching the connection.
hwp_get_text ==
  /\ server.made < MaxControllers
  /\ server.ctl.dispatched < MaxConnects
  /\ \E dispatch \in DispatchOutcomes, windowOk \in BOOLEAN :
       LET s == get_hwp_controller(ToolCall("hwp_get_text"), dispatch, windowOk) IN
       server' = [s EXCEPT !.returned = IF s.got = 0 THEN "Error: Failed to connect to HWP program"
                                        ELSE "text"]
  /\ ServerOthers

\* hwp_insert_table(rows, cols), as one of the tools that ask for the table
\* tools.
hwp_insert_table ==
  /\ server.made < MaxControllers
  /\ server.ctl.dispatched < MaxConnects
  /\ \E dispatch \in DispatchOutcomes, windowOk \in BOOLEAN :
       LET s == get_hwp_table_tools(ToolCall("hwp_insert_table"), dispatch, windowOk) IN
       server' = [s EXCEPT !.returned = IF s.got_tools = 0
                                          THEN "Error: Failed to get table tools instance"
                                          ELSE "insert_table"]
  /\ ServerOthers

\* hwp_create(): create_new_document() connects the controller again when
\* its flag is clear; HwpConnectionError leaves through the tool's handler.
hwp_create ==
  /\ server.made < MaxControllers
  /\ server.ctl.dispatched < MaxConnects - 1
  /\ \E dispatch \in DispatchOutcomes, windowOk \in BOOLEAN,
        dispatch2 \in DispatchOutcomes, windowOk2 \in BOOLEAN, runOk \in BOOLEAN :
       LET s == get_hwp_controller(ToolCall("hwp_create"), dispatch, windowOk)
           c1 == IF s.ctl.is_hwp_running THEN [s.ctl EXCEPT !.raised = "none"]
                 ELSE connect(s.ctl, dispatch2, windowOk2)
       IN server' =
            IF s.got = 0
              THEN [s EXCEPT !.returned = "Error: Failed to connect to HWP program"]
            ELSE IF c1.raised = "HwpConnectionError"
              THEN [s EXCEPT !.ctl = c1, !.returned = "Error: HwpConnectionError"]
            ELSE IF c1.raised = "com_error" \/ ~runOk
              THEN [s EXCEPT !.ctl = c1, !.returned = "Error: Failed to create new document"]
            ELSE [s EXCEPT !.ctl = c1, !.returned = "New document created successfully"]
  /\ ServerOthers

\* hwp_close(save): with a controller in the slot whose flag is set,
\* disconnect() releases the handle and both singletons are cleared;
\* otherwise "HWP is already closed" and nothing changes.
hwp_close ==
  /\ LET s == ToolCall("hwp_close") IN
     server' =
       IF s.hwp_controller # 0 /\ s.ctl.is_hwp_running
         THEN [s EXCEPT !.hwp_controller = 0, !.hwp_table_tools = 0,
                        !.ctl = NewController(s),
                        !.returned = "HWP connection closed successfully"]
         ELSE [s EXCEPT !.returned = "HWP is already closed"]
  /\ ServerOthers

\* hwp_batch_operations([{"operation": "close"}]), the list form of the tool:
\* disconnect() on the controller that get_hwp_controller() returned, then
\* only the controller slot is cleared.
CloseOperation ==
  /\ server.made < MaxControllers
  /\ server.ctl.dispatched < MaxConnects
  /\ \E dispatch \in DispatchOutcomes, windowOk \in BOOLEAN :
       LET s == get_hwp_controller(ToolCall("close"), dispatch, windowOk) IN
       server' =
         IF s.got = 0
           THEN [s EXCEPT !.returned = "Failed to connect to HWP program"]
           ELSE [s EXCEPT !.hwp_controller = 0, !.ctl = NewController(s),
                          !.returned = "Document closed successfully"]
  /\ ServerOthers

\* ---------------------------------------------- hwp_create_table_with_data
\* The `data` arguments the model gives the tool:
\*   "None"        no data
\*   "list"        a non-empty list of rows
\*   "json"        a string that json.loads turns into a non-empty list of rows
\*   "empty"       the empty list
\*   "unparsable"  a string neither json.loads nor ast.literal_eval accepts
\*   "not_a_list"  a string that parses to something that is not a list
\*   "unsupported" neither a list nor a string
DataArguments == {"None", "list", "json", "empty", "unparsable", "not_a_list",
                  "unsupported"}

\* The outcomes of the controller's insert_table (it returns True or raises)
\* and fill_table_with_data (it returns True or False).
InsertOutcomes == {"True", "raises"}
FillOutcomes == {"True", "False"}

\* HwpTableTools.insert_table: the text it returns for the controller's outcome.
TableToolsInsertTable(outcome) ==
  IF outcome = "True" THEN "Table inserted with rows and columns"
  ELSE "Error: exception text"

\* HwpTableTools.fill_table_with_data: the text it returns for the
\* controller's outcome (the two messages "table data entered" and "table data
\* entry failed" of the source).
TableToolsFillTable(outcome) ==
  IF outcome = "True" THEN "table data entered" ELSE "table data entry failed"

\* bool(text) of a Python string.
Truthy(text) == text # ""

\* A tool that tests the returned object itself.
TruthyResult(text) == Truthy(text)

\* The messages of the tool.
TableCompleted == "table creation completed"
TableAndDataCompleted == "table creation and data entry completed"
DataEntryFailed == "table created but data entry failed"
CompletionMessages == {TableCompleted, TableAndDataCompleted}
ErrorTexts == {"Error: Failed to get table tools instance",
               "Error: Failed to create table", "Error: exception text"}

NoTableTool == [op |-> "none", rows |-> 0, cols |-> 0, has_header |-> FALSE,
              has_tools |-> FALSE, in_table |-> FALSE,
              data |-> "None", insert |-> "none", fill |-> "none",
              insert_called |-> FALSE, fill_called |-> FALSE,
              returned |-> "none"]

\* hwp_create_table_with_data(rows, cols, data, has_header): the table tools
\* (None: an error text); the probe that decides whether the caret is in a
\* table (in a table when neither Run call raises); insert_table when it is
\* not; the checks of data; fill_table_with_data; the message.
hwp_create_table_with_data ==
  /\ \E rows \in 1..MaxRows, cols \in 1..MaxCols, has_header \in BOOLEAN,
        has_tools \in BOOLEAN, probeRaises \in BOOLEAN, data \in DataArguments,
        insert \in InsertOutcomes, fill \in FillOutcomes :
       LET c0 == [NoTableTool EXCEPT !.op = "hwp_create_table_with_data",
                                     !.rows = rows, !.cols = cols,
                                     !.has_header = has_header,
                                     !.has_tools = has_tools,
                                     !.in_table = ~probeRaises, !.data = data]
           c1 == IF c0.in_table THEN c0
                 ELSE [c0 EXCEPT !.insert_called = TRUE, !.insert = insert]
           c2 == [c1 EXCEPT !.fill_called = TRUE, !.fill = fill]
       IN table_tool' =
            IF ~has_tools
              THEN [c0 EXCEPT !.returned = "Error: Failed to get table tools instance"]
            ELSE IF c1.insert_called /\ ~TruthyResult(TableToolsInsertTable(insert))
              THEN [c1 EXCEPT !.returned = "Error: Failed to create table"]
            ELSE IF data = "None" THEN [c1 EXCEPT !.returned = TableCompleted]
            ELSE IF data = "unparsable"
              THEN [c1 EXCEPT !.returned = "table created but JSON data parsing error"]
            ELSE IF data = "unsupported"
              THEN [c1 EXCEPT !.returned = "table created but unsupported data type"]
            ELSE IF data = "not_a_list"
              THEN [c1 EXCEPT !.returned = "table created but data is not a list"]
            ELSE IF data = "empty"
              THEN [c1 EXCEPT !.returned = "table created but the data list is empty"]
            ELSE IF TruthyResult(TableToolsFillTable(fill))
              THEN [c2 EXCEPT !.returned = TableAndDataCompleted]
            ELSE [c2 EXCEPT !.returned = DataEntryFailed]
  /\ UNCHANGED <<txnVars, batchVars, loopVars, wordVars, large, multi, split, configVars>>
  /\ UNCHANGED <<validation, fileio, conn, table, inserted, server>>

\* ---------------------------------------------------------- specification
InitTxn ==
  /\ transaction_stack = <<>>
  /\ in_transaction = FALSE
  /\ scopes = <<>>
  /\ disk = {}
  /\ snapshot = [f \in Files |-> 0]
  /\ document = 0
  /\ current_document_path = 0
  /\ next_temp = 1
  /\ open_calls = {}
  /\ last_exit = NoExit
  /\ plain_opened = FALSE

InitBatch ==
  /\ is_hwp_running_attr = FALSE
  /\ processor_hwp \in BOOLEAN
  /\ batch = NoBatch

LoopOff == [pc |-> "off", text |-> "", reads |-> <<>>, eof_reads |-> 0,
            exit_code |-> 1, interrupted_at |-> "none"]

\* The Word server before its first tool call, with pypandoc installed or not.
InitWord ==
  /\ PANDOC_AVAILABLE \in BOOLEAN
  /\ current_document = 0
  /\ document_path = NoPath
  /\ files = {}
  /\ word_call = NoWordCall
  /\ last_known_path = NoPath

\* The Word server is not running.
WordOff ==
  /\ PANDOC_AVAILABLE = FALSE
  /\ current_document = 0
  /\ document_path = NoPath
  /\ files = {}
  /\ word_call = NoWordCall
  /\ last_known_path = NoPath

\* The configuration files and the environment a process starts in; config.py
\* is not imported yet.
InitConfig ==
  /\ environ \in BOOLEAN
  /\ config_files \in [CandidatePaths -> FileKinds]
  /\ ~environ => config_files[EnvPath] = "absent"
  /\ manager_instance = 0
  /\ manager_config = 0
  /\ module_config = 0
  /\ records = <<>>
  /\ config_call = NoConfigCall

\* No configuration file, no override; config.py is not imported.
ConfigOff ==
  /\ environ = FALSE
  /\ config_files = [path \in CandidatePaths |-> "absent"]
  /\ manager_instance = 0
  /\ manager_config = 0
  /\ module_config = 0
  /\ records = <<>>
  /\ config_call = NoConfigCall

\* No call of the processor's large-data methods was made.
ProcessorIdle == large = NoLarge /\ multi = NoMulti /\ split = NoSplit

\* No validator was called; error_handling_guide.py is not imported.
ToolsOff ==
  /\ validation = NoValidation
  /\ fileio = NoFileIo
  /\ conn = NoConn
  /\ table = NoTable
  /\ inserted = NoInsert
  /\ server = NoServer
  /\ table_tool = NoTableTool

\* The components outside the one a specification follows.
OthersOff == WordOff /\ ProcessorIdle /\ ConfigOff /\ ToolsOff

Init ==
  /\ InitTxn
  /\ com_may_fail = TRUE
  /\ InitBatch
  /\ stdin = <<>> /\ stdout = <<>> /\ loop = LoopOff
  /\ OthersOff

\* The same, in a run where no automation call fails.
InitReliable ==
  /\ InitTxn
  /\ com_may_fail = FALSE
  /\ InitBatch
  /\ stdin = <<>> /\ stdout = <<>> /\ loop = LoopOff
  /\ OthersOff

\* The transaction scopes of one processor, opened and closed by its caller.
Next ==
  \/ Enter
  \/ Commit
  \/ Fault
  \/ Edit

Spec == Init /\ [][Next]_vars

SpecReliable == InitReliable /\ [][Next]_vars

\* execute_batch calls on one processor, one after the other, each running in the
\* transaction scope it opens itself.
NextBatch ==
  \/ SetIsHwpRunning
  \/ Edit
  \/ BatchStart
  \/ BatchOp
  \/ BatchReturn

SpecBatch == Init /\ [][NextBatch]_vars

SpecBatchReliable == InitReliable /\ [][NextBatch]_vars

\* The minimal command-dispatch process, after HwpController() and
\* CommandParser() were constructed, fed any input of at most MaxLines lines.
InitLoop ==
  /\ InitTxn
  /\ com_may_fail = TRUE
  /\ is_hwp_running_attr = FALSE /\ processor_hwp = FALSE /\ batch = NoBatch
  /\ stdin \in UNION {[1..n -> Lines] : n \in 0..MaxLines}
  /\ stdout = <<>>
  /\ loop = [LoopOff EXCEPT !.pc = "read"]
  /\ OthersOff

NextLoop ==
  \/ Read
  \/ Handle
  \/ Interrupt

SpecLoop == InitLoop /\ [][NextLoop]_vars

\* The Word server, serving any sequence of tool calls.
InitWordServer ==
  /\ InitTxn
  /\ com_may_fail = TRUE
  /\ is_hwp_running_attr = FALSE /\ processor_hwp = FALSE /\ batch = NoBatch
  /\ stdin = <<>> /\ stdout = <<>> /\ loop = LoopOff
  /\ InitWord
  /\ ProcessorIdle
  /\ ConfigOff
  /\ ToolsOff

NextWord ==
  \/ WordCreateNewDocument
  \/ WordOpenDocument
  \/ WordSaveDocument
  \/ WordInsertText
  \/ WordExportToPdf

SpecWord == InitWordServer /\ [][NextWord]_vars

\* insert_large_table_data calls on one processor, one after the other.
NextLarge ==
  \/ SetIsHwpRunning
  \/ LargeStart
  \/ LargeCreate
  \/ LargeRow
  \/ LargeProgress

SpecLarge == Init /\ [][NextLarge]_vars

\* process_multiple_documents calls on one processor, one after the other.
NextMulti ==
  \/ SetIsHwpRunning
  \/ MultiStart
  \/ MultiTask
  \/ MultiReturn

SpecMulti == Init /\ [][NextMulti]_vars

\* split_table_data_for_parallel applied to any data and worker count.
NextSplit == Split

SpecSplit == Init /\ [][NextSplit]_vars

\* A process that imports config.py and, when the import went through, calls
\* into the configuration.
InitConfigProcess ==
  /\ InitTxn
  /\ com_may_fail = TRUE
  /\ is_hwp_running_attr = FALSE /\ processor_hwp = FALSE /\ batch = NoBatch
  /\ stdin = <<>> /\ stdout = <<>> /\ loop = LoopOff
  /\ WordOff
  /\ ProcessorIdle
  /\ InitConfig
  /\ ToolsOff

NextConfig ==
  \/ ImportConfig
  \/ ConfigManagerCall
  \/ GetConfig
  \/ UpdateConfig
  \/ ResetConfig
  \/ LoadFile

SpecConfig == InitConfigProcess /\ [][NextConfig]_vars

\* The two coordinate validators applied to any coordinates and maxima.
NextValidate ==
  \/ ValidateUtils
  \/ ImportGuide
  \/ ValidateGuide

SpecValidate == Init /\ [][NextValidate]_vars

\* A process that imports config.py, saves records and loads them again.
NextRoundTrip ==
  \/ ImportForSave
  \/ SaveRecord
  \/ LoadSaved

SpecRoundTrip == Init /\ [][NextRoundTrip]_vars

\* One HwpController object, any sequence of connection calls and document
\* creations.
NextConnection ==
  \/ Connect
  \/ Disconnect
  \/ IsConnected
  \/ CreateNewDocument

SpecConnection == Init /\ [][NextConnection]_vars

\* A document whose text is uniformly bold or not, the caret in some cell of its
\* table; then fill_table_with_data and text typed after it.
InitFill ==
  /\ InitTxn
  /\ com_may_fail = TRUE
  /\ InitBatch
  /\ stdin = <<>> /\ stdout = <<>> /\ loop = LoopOff
  /\ WordOff /\ ProcessorIdle /\ ConfigOff
  /\ validation = NoValidation /\ fileio = NoFileIo /\ conn = NoConn
  /\ inserted = NoInsert /\ server = NoServer /\ table_tool = NoTableTool
  /\ \E pos \in TableCells, style0 \in BOOLEAN, carries \in BOOLEAN :
       table = [NoTable EXCEPT
                  !.cells = [p \in TableCells |-> [text |-> "old", bold |-> style0]],
                  !.cursor = pos, !.bold = style0, !.style0 = style0,
                  !.carries = carries]

NextFill ==
  \/ FillTableWithData
  \/ TypeAfterFill

SpecFill == InitFill /\ [][NextFill]_vars

\* insert_text applied to any text.
NextInsert == InsertText

SpecInsert == Init /\ [][NextInsert]_vars

\* The tool server's hwp_batch_operations next to direct execute_batch calls
\* of a caller that owns a processor, in a run where no automation call fails.
NextBatchTool ==
  \/ HwpBatchOperations
  \/ SetIsHwpRunning
  \/ Edit
  \/ BatchStart
  \/ BatchOp
  \/ BatchReturn

SpecBatchTool == InitReliable /\ [][NextBatchTool]_vars

\* The HWP tool server, one tool call after the other.
NextServer ==
  \/ hwp_get_text
  \/ hwp_insert_table
  \/ hwp_create
  \/ hwp_close
  \/ CloseOperation

SpecServer == Init /\ [][NextServer]_vars

\* hwp_create_table_with_data calls, one after the other.
NextCreate == hwp_create_table_with_data

SpecCreate == Init /\ [][NextCreate]_vars

\* ------------------------------------------------------------------ claims
\* File f is the savepoint of an entry of the stack.
OnStack(f) == \E i \in 1..Len(transaction_stack) : transaction_stack[i].savepoint = f

\* C1: when the body of a scope opened with save_point=True raises, then on exit
\* the controller was asked to reopen the document from that scope's savepoint
\* file, the file is deleted, the scope's stack entry is popped, and the caller
\* gets an HwpBatchError.
C1_FaultRollsBack ==
  (last_exit.kind = "fault" /\ last_exit.save_point) =>
    /\ last_exit.temp_file \in open_calls
    /\ last_exit.temp_file \notin disk
    /\ ~OnStack(last_exit.temp_file)
    /\ last_exit.raised = "HwpBatchError"

\* C2: when the body of a scope opened with save_point=True on an empty stack
\* completes without fault, then after exit its savepoint file does not exist, the
\* stack is empty, the in-transaction flag is false, and the document was never
\* reopened from that savepoint.
C2_CleanCommit ==
  (last_exit.kind = "commit" /\ last_exit.save_point /\ last_exit.entry_stack = <<>>) =>
    /\ last_exit.temp_file \notin disk
    /\ transaction_stack = <<>>
    /\ ~in_transaction
    /\ last_exit.temp_file \notin open_calls

\* Some operation the call attempted has faulted.
SomeOperationFailed ==
  \E i \in 1..Len(batch.attempted) :
    ExecuteOperation(batch.operations[batch.attempted[i] + 1]) # "returned"

\* C3: when execute_batch ran with use_transaction=True and some operation failed,
\* the document is back at the savepoint taken before the first operation: no
\* effect of the batch's earlier operations remains.
C3_FailedBatchRolledBack ==
  (batch.pc \in {"done", "raised"} /\ batch.entered /\ batch.use_transaction
     /\ SomeOperationFailed)
    => document = batch.start_document

\* C4: once the loop of execute_batch was entered and the call has ended, the
\* operations were attempted in list order; with stop_on_error=True and a first
\* failure at index k nothing after k was attempted and executed = k, failed = 1
\* with k+1 recorded results; with stop_on_error=False every operation was
\* attempted, with one result each and executed + failed = len(operations); and
\* success is true exactly when failed = 0.
C4_BatchCounts ==
  (batch.pc \in {"done", "raised"} /\ batch.entered) =>
    LET n == Len(batch.operations)
        k == FirstFailure(batch.operations, 0) IN
    /\ \A i \in 1..Len(batch.attempted) : batch.attempted[i] = i - 1
    /\ (batch.stop_on_error /\ k < n) =>
         /\ Len(batch.attempted) = k + 1
         /\ batch.executed = k /\ batch.failed = 1
         /\ Len(batch.results) = k + 1
    /\ (~batch.stop_on_error \/ k = n) =>
         /\ Len(batch.attempted) = n
         /\ Len(batch.results) = n
         /\ batch.executed + batch.failed = n
    /\ batch.success <=> (batch.failed = 0)

\* C5: a fault of one operation (unknown action, no action name, rejected
\* parameters) is caught and recorded as that operation's failed result, with its
\* index and action; execute_batch returns its result record and does not raise
\* because of a faulting operation.
C5_FaultsRecorded ==
  batch.entered =>
    /\ batch.pc # "raised"
    /\ batch.pc = "done" =>
         \A i \in 1..Len(batch.attempted) :
           LET idx == batch.attempted[i]
               op == batch.operations[idx + 1] IN
           ExecuteOperation(op) # "returned" =>
             \E j \in 1..Len(batch.results) :
               batch.results[j] = [index |-> idx, operation |-> op, success |-> FALSE]

\* C6: with every scope opened with save_point=True, the stack holds exactly the
\* entries of the scopes that are open, in order, at every point; a fault in an
\* inner scope reopens the document from that scope's own savepoint and leaves
\* the entries of the outer scopes on the stack.
C6_StackMirrorsScopes ==
  ~plain_opened =>
    /\ Len(transaction_stack) = Len(scopes)
    /\ \A i \in 1..Len(scopes) :
         i <= Len(transaction_stack) =>
           transaction_stack[i].savepoint = scopes[i].temp_file
    /\ last_exit.kind = "fault" =>
         /\ last_exit.temp_file \in open_calls
         /\ transaction_stack = last_exit.entry_stack

\* C7: a scope opened with save_point=False creates no savepoint file and neither
\* pushes nor pops: on its exit, by commit or by fault, nested or not, the stack
\* is the stack of its entry.
C7_PlainScopeKeepsStack ==
  (last_exit.kind \in {"commit", "fault"} /\ ~last_exit.save_point) =>
    /\ last_exit.temp_file = 0
    /\ transaction_stack = last_exit.entry_stack

\* C8: once the outermost scope has exited, the stack is empty and every
\* savepoint file the processor created is deleted.
C8_NothingOutlives ==
  scopes = <<>> => (transaction_stack = <<>> /\ disk = {})

\* The lines read so far that str.strip() leaves non-empty, in input order.
NonBlankReads == SelectSeq(loop.reads, LAMBDA l : Strip(l) # "")

\* The lines read so far that have a character besides their newline.
NonEmptyReads == SelectSeq(loop.reads, LAMBDA l : ~IsEmptyLine(l))

\* A line was read and its response is not written yet.
ResponsePending ==
  loop.pc = "handle" \/ (loop.pc = "exited" /\ loop.interrupted_at = "handle")

\* C9 as stated: one response for each non-empty input line (a line with any
\* character besides its newline), written before the next line is read.
C9_OneResponsePerNonEmptyLine ==
  loop.pc = "read" => Len(stdout) = Len(NonEmptyReads)

\* C9, amended: the loop writes exactly one response for each input line that is
\* non-empty after stripping surrounding whitespace, in input order, and has
\* written it before it reads the next line; a line that does not parse or names
\* an unrecognized command type gets a status "error" response and the loop
\* reads on.
C9_OneResponsePerNonBlankLine ==
  /\ Len(stdout) = Len(NonBlankReads) - (IF ResponsePending THEN 1 ELSE 0)
  /\ loop.pc = "read" => ~ResponsePending
  /\ \A i \in 1..Len(stdout) :
       /\ i <= Len(NonBlankReads)
       /\ stdout[i].text = NonBlankReads[i].text
       /\ stdout[i].text \in {"garbage", "unknown"} => stdout[i].status = "error"

\* C9 witness: a padded blank line was skipped, a faulting line got its error
\* response, and a later line was answered after it.
C9_Witness ==
  /\ loop.pc = "read"
  /\ Len(stdout) = 2
  /\ stdout[1] = [text |-> "garbage", status |-> "error"]
  /\ stdout[2] = [text |-> "known", status |-> "success"]
  /\ \E i \in 1..Len(loop.reads) : loop.reads[i] = [pad |-> TRUE, text |-> ""]

\* C10: at end-of-input the read loop stops and the process terminates; an
\* interrupt makes it exit with code 0.
C10_EndOfInputStops ==
  /\ loop.eof_reads > 0 => loop.pc = "exited"
  /\ loop.pc = "exited" => loop.exit_code = 0

\* C11: save_document() without a path saves to the last-known path (the path
\* of the most recent successful open_document or save_document(path) since the
\* last create_new_document); when there is no such path it writes no file and
\* returns a text beginning "Error: ".
C11_SaveUsesLastKnownPath ==
  (word_call.tool = "save_document" /\ word_call.file_path = NoPath) =>
    IF word_call.known_before = NoPath
      THEN word_call.text = "Error" /\ word_call.wrote = {}
      ELSE /\ word_call.wrote \subseteq {word_call.known_before}
           /\ word_call.text = "ok" => word_call.wrote = {word_call.known_before}

\* C12: when export_to_pdf is called while the document has never been saved and
\* returns successfully, the temporary file no longer exists and the
\* last-saved-path slot is unchanged (still absent).
C12_ExportLeavesNoTrace ==
  (word_call.tool = "export_to_pdf" /\ word_call.path_before = NoPath
     /\ word_call.text = "ok")
    => (TempPath \notin files /\ document_path = NoPath)

\* C13 as stated: once something goes wrong the call reports failure and writes
\* nothing further: a failed table creation gives zero cell fills and the result
\* failure; a faulting cell fill is followed by no cell fill and no progress
\* callback, and the result is failure.
C13_FailureResult ==
  /\ large.create \in {"False", "raises"} =>
       (large.fills = <<>> /\ large.result = "False")
  /\ large.faulted =>
       /\ Len(large.fills) = large.fills_at_fault
       /\ Len(large.callbacks) = large.callbacks_at_fault
       /\ large.result = "False"

\* C13, amended: a table creation that returns failure gives zero cell fills and
\* the result failure; a table creation that raises gives zero cell fills and
\* its fault leaves the call (no result); a faulting cell fill is followed by no
\* cell fill and no progress callback, and the result is failure.
C13_FailureResultOrFault ==
  /\ large.create = "False" =>
       (large.fills = <<>> /\ large.pc = "done" /\ large.result = "False")
  /\ large.create = "raises" =>
       (large.fills = <<>> /\ large.pc = "raised" /\ large.result = "none")
  /\ large.faulted =>
       /\ Len(large.fills) = large.fills_at_fault
       /\ Len(large.callbacks) = large.callbacks_at_fault
       /\ large.pc = "done" /\ large.result = "False"

\* C13 witness: a cell fill faulted after a whole chunk was filled and reported,
\* with rows of the data still unfilled.
C13_Witness ==
  /\ large.faulted
  /\ Len(large.callbacks) >= 1
  /\ Len(large.fills) >= 2
  /\ large.row + 1 < Len(large.data)

\* The cells of data rows first..Len(data), row by row, each row in column order.
RECURSIVE AllCells(_, _)
AllCells(data, first) ==
  IF first > Len(data) THEN <<>>
  ELSE RowCells(first, data[first]) \o AllCells(data, first + 1)

\* The number of cells of the first n data rows.
RECURSIVE CellsUpTo(_, _)
CellsUpTo(data, n) == IF n = 0 THEN 0 ELSE data[n] + CellsUpTo(data, n - 1)

C15_OneOutcomePerTask ==
  /\ multi.success + multi.failed = Len(multi.documents)
  /\ \A i \in 1..Len(multi.handled) : multi.handled[i] = i - 1
  /\ multi.pc = "done" =>
       /\ multi.total = Len(multi.tasks)
       /\ Len(multi.handled) = multi.total
       /\ Len(multi.documents) = multi.total
  /\ \A i \in 1..Len(multi.documents) :
       multi.faults[i] # "none" => ~multi.documents[i].success

\* The chunks from position i on, joined in order.
RECURSIVE Concat(_, _)
Concat(chunks, i) == IF i > Len(chunks) THEN <<>> ELSE chunks[i] \o Concat(chunks, i + 1)

\* C16: for a non-empty data list and num_workers >= 1 the call returns chunks
\* whose concatenation in order is the input; every chunk but the last has
\* ceil(len(data)/num_workers) rows, no chunk is empty, and there are at most
\* num_workers chunks.
C16_SplitPartitions ==
  (split.pc = "done" /\ split.data # <<>> /\ split.num_workers >= 1) =>
    LET n == Len(split.data)
        w == split.num_workers
        ceil == (n + w - 1) \div w
        chunks == split.chunks IN
    /\ split.raised = "none"
    /\ Concat(chunks, 1) = split.data
    /\ \A i \in 1..Len(chunks) :
         /\ chunks[i] # <<>>
         /\ Len(chunks[i]) <= ceil
         /\ i < Len(chunks) => Len(chunks[i]) = ceil
    /\ Len(chunks) <= w

\* C16 witness: three rows over two workers gave chunks of two rows and one row.
C16_Witness ==
  /\ split.pc = "done" /\ split.raised = "none"
  /\ Len(split.data) = 3 /\ split.num_workers = 2
  /\ Len(split.chunks) = 2
  /\ Len(split.chunks[1]) = 2 /\ Len(split.chunks[2]) = 1

\* C17: applied to an empty data list the call returns an empty chunk list, for
\* any num_workers >= 1, without raising.
C17_SplitEmpty ==
  (split.pc = "done" /\ split.data = <<>> /\ split.num_workers >= 1) =>
    (split.raised = "none" /\ split.chunks = <<>>)

\* The file at the path exists and holds a JSON object (it parses).
Parses(path) == config_files[path] \in {"fields", "unknown"}

\* The position in ConfigPaths, from i on, of the first path whose file exists
\* and parses; 0 when there is none.
RECURSIVE FirstParsing(_)
FirstParsing(i) ==
  IF i > Len(ConfigPaths) THEN 0
  ELSE IF Parses(ConfigPaths[i]) THEN i
  ELSE FirstParsing(i + 1)

\* The paths before position n of ConfigPaths whose file exists, in order.
ExistingBefore(n) ==
  SelectSeq(SubSeq(ConfigPaths, 1, n - 1), LAMBDA path : config_files[path] # "absent")

\* C18: the first construction tries the path named by HWP_MCP_CONFIG,
\* ./hwp_config.json, the per-user file and the project-root file in this
\* order; the record is the one loaded from the first path that exists and
\* parses; every earlier path that exists but fails to parse was reported; with
\* no such path the record is the all-defaults record; nothing is raised.
C18_FirstParsingPathWins ==
  config_call.op \in {"import", "construct"} =>
    LET first == FirstParsing(1) IN
    /\ config_call.raised = "none"
    /\ manager_config # 0
    /\ first = 0 =>
         /\ records[manager_config] = Defaults
         /\ config_call.reported = ExistingBefore(Len(ConfigPaths) + 1)
    /\ first # 0 =>
         /\ records[manager_config] = FileRecord(ConfigPaths[first])
         /\ config_call.reported = ExistingBefore(first)

\* C19: unknown fields are ignored, not rejected: update with a key that is not
\* a field of the record changes nothing and does not raise, and loading a file
\* with an unknown field gives the record of the file's known fields, without
\* raising.
C19_UnknownFieldsIgnored ==
  /\ (config_call.op = "update" /\ config_call.key \notin FieldNames) =>
       (config_call.raised = "none"
          /\ records[manager_config] = config_call.before)
  /\ (config_call.op = "load" /\ config_files[config_call.path] = "unknown") =>
       (config_call.raised = "none"
          /\ config_call.loaded = FileRecord(config_call.path))

\* C20: there is one manager instance owning one current record: every way of
\* reaching the configuration (ConfigManager().config, get_config(), the
\* module-level config) observes that record; an update of an existing key is
\* applied to it; right after reset() every field has its default.
C20_OneCurrentRecord ==
  /\ manager_instance <= 1
  /\ manager_config # 0 =>
       /\ manager_instance = 1
       /\ module_config = manager_config
       /\ config_call.op \in {"construct", "ConfigManager", "get_config"} =>
            config_call.returned = manager_config
  /\ (config_call.op = "update" /\ config_call.key \in FieldNames) =>
       \E arg \in UpdateArgs :
         /\ arg[1] = config_call.key
         /\ records[manager_config] = SetAttr(config_call.before, arg[1], arg[2])
  /\ config_call.op = "reset" => records[manager_config] = Defaults

\* Python's ValueError and the project's HwpInvalidParameterError: the faults
\* that say a parameter is invalid.
InvalidParameterFaults == {"ValueError", "HwpInvalidParameterError"}

InRange(v) ==
  /\ 1 <= v.row /\ v.row <= v.max_rows
  /\ 1 <= v.col /\ v.col <= v.max_cols

\* C26: validate_table_coordinates(row, col, max_rows, max_cols) returns exactly
\* when 1 <= row <= max_rows and 1 <= col <= max_cols and signals an
\* invalid-parameter fault otherwise; so do the validator of the shared
\* utilities and the validator of the error-handling guide, which both exist.
C26_ValidatorsAgree ==
  /\ validation.guide # "NameError"
  /\ validation.validator \in {"utils", "guide"} =>
       IF InRange(validation) THEN validation.raised = "none"
       ELSE validation.raised \in InvalidParameterFaults

\* C21: saving a record R to a writable path and loading that path gives a
\* record equal to R in every field, the mapping-valued and the list-valued
\* fields included; neither the import of the module nor save raises.
C21_RoundTrip ==
  /\ fileio.op \in {"import", "save"} => fileio.raised = "none"
  /\ fileio.op = "load" =>
       \A f \in {"debug_mode", "batch_size", "default_font", "default_margins",
                 "allowed_image_formats"} : fileio.loaded[f] = fileio.R[f]

\* C22: whenever the live flag is set the handle is present; once disconnect()
\* has returned True the handle is released and the flag is clear, whatever the
\* state before the call; is_connected() returns True only if the flag was set
\* and the handle present, and after it returned False the flag is clear.
C22_ConnectionState ==
  /\ conn.is_hwp_running => conn.hwp # 0
  /\ (conn.op = "disconnect" /\ conn.returned = "True") =>
       (conn.hwp = 0 /\ ~conn.is_hwp_running)
  /\ (conn.op = "is_connected" /\ conn.returned = "True") =>
       (conn.before.is_hwp_running /\ conn.before.hwp # 0 /\ conn.is_hwp_running)
  /\ (conn.op = "is_connected" /\ conn.returned = "False") => ~conn.is_hwp_running

\* The cells fill_table_with_data was asked to write: data[i][j] goes to row
\* start_row + i, column start_col + j (i, j counted from 0 in the code, from 1
\* here).
Target(call, i, j) == <<call.start_row + i - 1, call.start_col + j - 1>>
DataIndexes(data) ==
  {ij \in (1..Len(data)) \X (1..MaxCols) : ij[2] <= Len(data[ij[1]])}
Targets(call) == {Target(call, ij[1], ij[2]) : ij \in DataIndexes(call.data)}

NonBlank(line) == \E i \in 1..Len(line) : line[i] # " "

\* The calls that insert the lines from line i on (every line, or only the
\* lines that are not blank), with one paragraph break between consecutive
\* lines.
RECURSIVE Interleaved(_, _, _)
Interleaved(lines, i, blank_too) ==
  IF i > Len(lines) THEN <<>>
  ELSE (IF i > 1 THEN <<BreakPara>> ELSE <<>>)
       \o (IF blank_too \/ NonBlank(lines[i]) THEN <<InsertCall(lines[i])>> ELSE <<>>)
       \o Interleaved(lines, i + 1, blank_too)

PreservedBreaks ==
  /\ inserted.op = "insert_text" /\ inserted.running
  /\ inserted.preserve_linebreaks /\ HasLineBreak(inserted.text)

\* C25 as stated: with preserve_linebreaks and k >= 1 line breaks, each of the
\* k + 1 lines is inserted, in order, one paragraph break between consecutive
\* lines and none after the last; otherwise the whole text goes in one call.
C25_EachLineInserted ==
  (inserted.op = "insert_text" /\ inserted.running) =>
    IF PreservedBreaks
      THEN inserted.calls = Interleaved(SplitLines(inserted.text), 1, TRUE)
      ELSE inserted.calls = <<InsertCall(inserted.text)>>

\* C25 amended: with preserve_linebreaks and k >= 1 line breaks, each of the
\* k + 1 lines that has a character other than a space is inserted, in order,
\* a blank line is not inserted; exactly k paragraph breaks are issued, one
\* between consecutive lines, none after the last; otherwise the whole text
\* goes in one call.
C25_NonBlankLinesInserted ==
  (inserted.op = "insert_text" /\ inserted.running) =>
    IF PreservedBreaks
      THEN /\ inserted.calls = Interleaved(SplitLines(inserted.text), 1, FALSE)
           /\ Len(SelectSeq(inserted.calls, LAMBDA c : c = BreakPara))
                = Len(SelectSeq(inserted.text, LAMBDA ch : ch = LineBreak))
           /\ inserted.calls[Len(inserted.calls)] = BreakPara
                => ~NonBlank(Top(SplitLines(inserted.text)))
      ELSE inserted.calls = <<InsertCall(inserted.text)>>

\* A text of three lines, the middle one of spaces only, inserted with
\* preserve_linebreaks: two inserts and two paragraph breaks.
C25_Witness ==
  /\ PreservedBreaks
  /\ inserted.text = <<"x", LineBreak, " ", LineBreak>>
  /\ Len(inserted.calls) = 3

\* The operations of the tool call are well-formed and their actions belong to
\* the documented action set, with controller methods that return.
WellFormedOperations ==
  \A i \in 1..Len(batch.operations) : batch.operations[i] = "insert_text"

\* C27: with a live connection, hwp_batch_operations on a JSON list of n
\* well-formed operations of documented actions passes the connection guard
\* and dispatches every operation, returning executed = n, failed = 0 and
\* success = true.
C27_ToolBatchSucceeds ==
  (/\ batch.tool = "hwp_batch_operations" /\ batch.pc # "loop"
   /\ batch.connected /\ batch.parsed /\ WellFormedOperations) =>
    /\ ToolReturned = "results"
    /\ batch.raised # "HwpNotRunningError"
    /\ batch.attempted = [i \in 1..Len(batch.operations) |-> i - 1]
    /\ batch.executed = Len(batch.operations)
    /\ batch.failed = 0
    /\ batch.success

\* C28: after a transaction scope exits, by commit or by rollback, the
\* controller's current document path equals its value before the scope was
\* entered, and it is not the scope's savepoint file.
C28_PathRestored ==
  last_exit.kind \in {"commit", "fault"} =>
    /\ current_document_path = last_exit.entry_path
    /\ last_exit.save_point => current_document_path # last_exit.temp_file

\* C29: after any sequence of tool calls, get_hwp_controller() returned None
\* or a controller whose connection is live; the table-tools singleton, when
\* not None, is bound to the controller in the slot; a failed connection
\* attempt leaves the controller slot empty.
C29_SingletonsLive ==
  /\ server.got # 0 => server.got_live
  /\ server.hwp_table_tools # 0 => server.hwp_table_tools = server.hwp_controller
  /\ server.failed => server.hwp_controller = 0

\* C30: hwp_create_table_with_data reports completion only when every step it
\* performed succeeded: a failed table creation gives a text beginning
\* "Error: " and no data fill; a failed data fill gives the data-entry-failed
\* message instead of the completion message.
C30_CompletionMeansSuccess ==
  table_tool.op = "hwp_create_table_with_data" =>
    /\ (table_tool.insert_called /\ table_tool.insert # "True") =>
         (table_tool.returned \in ErrorTexts /\ ~table_tool.fill_called)
    /\ (table_tool.fill_called /\ table_tool.fill # "True") =>
         table_tool.returned = DataEntryFailed
    /\ table_tool.returned \in CompletionMessages =>
         /\ table_tool.insert_called => table_tool.insert = "True"
         /\ table_tool.fill_called => table_tool.fill = "True"

====
